---- MODULE Spec2Model ----
(***************************************************************************)
(* A model of the Rhizome bundle fetch scheduler of serval-dna             *)
(* (rhizome_fetch.c): the candidate queues, the fetch slots, the ignore    *)
(* cache and the handlers that drive them.  Each handler of the C source   *)
(* is one action; the C functions are operators over a record S that holds *)
(* the program's mutable state, threaded through the calls in the order    *)
(* the C code makes them.                                                  *)
(***************************************************************************)
EXTENDS Integers, Sequences, FiniteSets, TLC

VARIABLES
  queues,          \* rhizome_fetch_queues[i].candidate_queue
  slots,           \* rhizome_fetch_queues[i].active
  sched_activate,  \* the activation alarm
  store,           \* MANIFESTS table: id -> stored version, -1 when absent
  files,           \* FILES table: hashes of the payloads held with datavalid=1
  ignored,         \* the ignore cache
  released,        \* manifest handle -> number of rhizome_manifest_free calls
  imported,        \* manifest handle -> number of import calls
  fs,              \* scratch files present in the import directory
  scratch,         \* per slot: FILE streams open on its scratch file, bytes written
  rx_time,         \* per slot: when it last entered datagram mode or took a datagram
  events,          \* what the last handler did, in order
  fault,           \* "none", or the fault that stopped the process
  now,             \* gettime_ms()
  nextH,           \* number of manifests handed to the engine so far
  last             \* the last handler run, its input and its return value

vars == << queues, slots, sched_activate, store, files, ignored, released,
           imported, fs, scratch, rx_time, events, fault, now, nextH, last >>

-----------------------------------------------------------------------------
(* Bounds of the model *)

MaxManifests == 3
MaxId == 2
MaxVersion == 2
MaxTicks == 2

(* Program constants *)

NQUEUES == 5
IGNORED_BIN_SIZE == 8
IGNORED_BIN_BITS == 6
IGNORE_TIMEOUT == 60000
NORMAL_PRIORITY == 100
RHIZOME_IDLE_TIMEOUT == 5000
FETCH_DELAY_MS == 500
MDP_BLOCK_TX_INTERVAL == 133
MDP_MANIFEST_TX_INTERVAL == 100
MDP_FILE_IDLE_TIMEOUT == 5000
MDP_MANIFEST_IDLE_TIMEOUT == 2000
MDP_BLOCK_LENGTH == 200
MAX_MANIFEST_BYTES == 8192

candidate_queue_size == << 5, 4, 3, 2, 1 >>
size_threshold == << 10000, 100000, 1000000, 10000000, -1 >>

QueueNos == 0 .. NQUEUES - 1
QSize(i) == candidate_queue_size[i + 1]
QThreshold(i) == size_threshold[i + 1]

(* enum rhizome_start_fetch_result, and the -1 of WHY() *)
STARTED == "STARTED"
IMPORTED == "IMPORTED"
SAMEPAYLOAD == "SAMEPAYLOAD"
SUPERSEDED == "SUPERSEDED"
SAMEBUNDLE == "SAMEBUNDLE"
OLDERBUNDLE == "OLDERBUNDLE"
NEWERBUNDLE == "NEWERBUNDLE"
SLOTBUSY == "SLOTBUSY"
FETCHERROR == "ERROR"

-----------------------------------------------------------------------------
(* Data *)

Ids == 1 .. MaxId
Versions == 1 .. MaxVersion
Handles == 1 .. MaxManifests

\* A NULL manifest pointer is the manifest of handle 0.
NoManifest ==
  [h |-> 0, id |-> 0, version |-> 0, fileLength |-> 0, hash |-> 0,
   selfSigned |-> FALSE, valid |-> FALSE]
IsNull(m) == m.h = 0

\* peer_ipandport (ip: sin_family == AF_INET) and peer_sid
NoPeer == [ip |-> FALSE, sid |-> 0]
HttpPeer == [ip |-> TRUE, sid |-> 1]
MdpPeer == [ip |-> FALSE, sid |-> 2]
Peers == { HttpPeer, MdpPeer }

EmptyCandidate == [manifest |-> NoManifest, peer |-> NoPeer, priority |-> 0]
EmptyIgnored == [bid |-> 0, timeout |-> 0, peer |-> NoPeer]

Min(a, b) == IF a < b THEN a ELSE b
Max(a, b) == IF a > b THEN a ELSE b

-----------------------------------------------------------------------------
(* rhizome_manifest_free: one more release of the manifest's handle *)

rhizome_manifest_free(S, m) ==
  [S EXCEPT !.released[m.h] = @ + 1]

-----------------------------------------------------------------------------
(* Queues *)

\* (variant: a payload of exactly the threshold length is let into the queue)
find_queue_inclusive(size) ==
  LET ok == { i \in QueueNos : QThreshold(i) < 0 \/ size <= QThreshold(i) }
  IN  IF ok = {} THEN -1 ELSE CHOOSE i \in ok : \A k \in ok : i <= k

rhizome_find_queue(size) ==
  LET ok == { i \in QueueNos : QThreshold(i) < 0 \/ size < QThreshold(i) }
  IN  IF ok = {} THEN -1 ELSE CHOOSE i \in ok : \A k \in ok : i <= k

\* the position the while loop of rhizome_fetch_insert leaves e at
RECURSIVE InsertEnd(_, _, _)
InsertEnd(a, i, e) ==
  IF e > i /\ IsNull(a[e - 1].manifest) THEN InsertEnd(a, i, e - 1) ELSE e

\* an insertion into a full queue that forgets the manifest of the tail
insert_forgetting_tail(S, qn, i) ==
  LET a == S.queues[qn]
      n == QSize(qn)
      full == ~IsNull(a[n - 1].manifest)
      e == IF full THEN n - 1 ELSE InsertEnd(a, i, n - 1)
      b == [k \in 0 .. n - 1 |->
              IF k > i /\ k <= e THEN a[k - 1]
              ELSE IF k = i THEN [a[i] EXCEPT !.manifest = NoManifest]
              ELSE a[k]]
  IN  [S EXCEPT !.queues[qn] = b]

rhizome_fetch_insert(S, qn, i) ==
  LET a == S.queues[qn]
      n == QSize(qn)
      full == ~IsNull(a[n - 1].manifest)
      S1 == IF full THEN rhizome_manifest_free(S, a[n - 1].manifest) ELSE S
      e == IF full THEN n - 1 ELSE InsertEnd(a, i, n - 1)
      b == [k \in 0 .. n - 1 |->
              IF k > i /\ k <= e THEN a[k - 1]
              ELSE IF k = i THEN [a[i] EXCEPT !.manifest = NoManifest]
              ELSE a[k]]
  IN  [S1 EXCEPT !.queues[qn] = b]

\* (variant: the candidates behind position i are not moved up)
unqueue_leaving_gap(S, qn, i) ==
  LET a == S.queues[qn]
      S1 == IF ~IsNull(a[i].manifest)
              THEN rhizome_manifest_free(S, a[i].manifest) ELSE S
  IN  [S1 EXCEPT !.queues[qn][i].manifest = NoManifest]

\* the position the for loop of rhizome_fetch_unqueue leaves c at
RECURSIVE UnqueueEnd(_, _, _)
UnqueueEnd(a, c, n) ==
  IF c < n - 1 /\ ~IsNull(a[c + 1].manifest) THEN UnqueueEnd(a, c + 1, n) ELSE c

rhizome_fetch_unqueue(S, qn, i) ==
  LET a == S.queues[qn]
      n == QSize(qn)
      S1 == IF ~IsNull(a[i].manifest)
              THEN rhizome_manifest_free(S, a[i].manifest) ELSE S
      e == UnqueueEnd(a, i, n)
      b == [k \in 0 .. n - 1 |->
              IF k >= i /\ k < e THEN a[k + 1]
              ELSE IF k = e THEN [a[e] EXCEPT !.manifest = NoManifest]
              ELSE a[k]]
  IN  [S1 EXCEPT !.queues[qn] = b]

-----------------------------------------------------------------------------
(* The store (external): the two queries the engine makes, and the import *)

\* (variant: only a strictly newer stored version supersedes)
lookup_strictly_newer(S, m) ==
  LET dbVersion == S.store[m.id]
  IN  IF dbVersion > m.version THEN -1 ELSE 0

\* SELECT version FROM MANIFESTS WHERE id = ...; dbVersion stays -1 with no row
rhizome_manifest_version_cache_lookup(S, m) ==
  LET dbVersion == S.store[m.id]
  IN  IF dbVersion >= m.version THEN -1 ELSE 0

\* rhizome_bundle_import / rhizome_add_manifest: ok is whether the store accepts
StoreBundle(S, m, ok) ==
  LET S1 == [S EXCEPT !.imported[m.h] = @ + 1]
  IN  IF ok
        THEN [S1 EXCEPT !.store[m.id] = Max(@, m.version),
                        !.files = IF m.fileLength > 0 THEN @ \cup { m.hash } ELSE @]
        ELSE S1

rhizome_import_received_bundle(S, m, ok) == StoreBundle(S, m, ok)

\* rhizome_manifest_verify: 0 when the signature verifies
rhizome_manifest_verify(m) == IF m.valid THEN 0 ELSE 1

-----------------------------------------------------------------------------
(* Ignore cache *)

\* first byte of cryptoSignPublic of the bundle id
Byte0(id) == IF id = 0 THEN 0 ELSE 3 + id
IgnoreBin(id) == Byte0(id) \div (2 ^ (8 - IGNORED_BIN_BITS))
IgnoreWays == 0 .. IGNORED_BIN_SIZE - 1

\* the first slot of the bin whose bid equals id, IGNORED_BIN_SIZE when none
IgnoreFind(ign, id) ==
  LET hit == { w \in IgnoreWays : ign[IgnoreBin(id)][w].bid = id }
  IN  IF hit = {} THEN IGNORED_BIN_SIZE ELSE CHOOSE w \in hit : \A v \in hit : w <= v

\* (variant: an entry is still honoured at the instant of its expiry)
check_until_expiry(ign, id, t) ==
  LET slot == IgnoreFind(ign, id)
  IN  IF slot < IGNORED_BIN_SIZE /\ ign[IgnoreBin(id)][slot].timeout >= t
        THEN 1 ELSE 0

rhizome_ignore_manifest_check(ign, id, t) ==
  LET slot == IgnoreFind(ign, id)
  IN  IF slot < IGNORED_BIN_SIZE /\ ign[IgnoreBin(id)][slot].timeout > t
        THEN 1 ELSE 0

\* rnd is the value of random()
rhizome_queue_ignore_manifest(S, m, peer, timeout, t, rnd) ==
  LET found == IgnoreFind(S.ignored, m.id)
      slot == IF found >= IGNORED_BIN_SIZE THEN rnd % IGNORED_BIN_SIZE ELSE found
  IN  [S EXCEPT !.ignored[IgnoreBin(m.id)][slot] =
                   [bid |-> m.id, timeout |-> t + timeout, peer |-> peer]]

-----------------------------------------------------------------------------
(* is_scheduled / schedule of the activation alarm *)

\* an arming that does not look whether the alarm is pending
ScheduleActivationAnew(S) ==
  [S EXCEPT !.sched_activate =
              [scheduled |-> TRUE, alarm |-> S.env.now + FETCH_DELAY_MS]]

ScheduleActivation(S) ==
  IF ~S.sched_activate.scheduled
    THEN [S EXCEPT !.sched_activate =
                      [scheduled |-> TRUE, alarm |-> S.env.now + FETCH_DELAY_MS]]
    ELSE S

-----------------------------------------------------------------------------
(* rhizome_suggest_queue_manifest_import *)

Return(S, v) == [S EXCEPT !.ret = v]

IgnoreAndFree(S, m, peer) ==
  rhizome_manifest_free(
    rhizome_queue_ignore_manifest(S, m, peer, IGNORE_TIMEOUT, S.env.now, S.env.rnd), m)

\* (variant: an older queued version of the bundle is passed over, not unqueued)
RECURSIVE SuggestScanKeepingOlder(_, _, _, _, _, _, _)
SuggestScanKeepingOlder(S, m, peer, qi, i, j, ci) ==
  IF i >= NQUEUES THEN [early |-> FALSE, S |-> S, ci |-> ci]
  ELSE IF j >= QSize(i) THEN SuggestScanKeepingOlder(S, m, peer, qi, i + 1, 0, ci)
  ELSE
    LET c == S.queues[i][j] IN
    IF ~IsNull(c.manifest)
      THEN IF c.manifest.id = m.id /\ c.manifest.version >= m.version
             THEN [early |-> TRUE, ci |-> ci,
                   S |-> Return(rhizome_manifest_free(S, m), 0)]
             ELSE SuggestScanKeepingOlder(S, m, peer, qi, i, j + 1,
                              IF ci = -1 /\ i = qi /\ c.priority < NORMAL_PRIORITY
                                THEN j ELSE ci)
      ELSE SuggestScanKeepingOlder(S, m, peer, qi, i + 1, 0,
                       IF ci = -1 /\ i = qi THEN j ELSE ci)

\* (variant: a candidate of the same priority is displaced, not only a lower one)
RECURSIVE SuggestScanDisplacing(_, _, _, _, _, _, _)
SuggestScanDisplacing(S, m, peer, qi, i, j, ci) ==
  IF i >= NQUEUES THEN [early |-> FALSE, S |-> S, ci |-> ci]
  ELSE IF j >= QSize(i) THEN SuggestScanDisplacing(S, m, peer, qi, i + 1, 0, ci)
  ELSE
    LET c == S.queues[i][j] IN
    IF ~IsNull(c.manifest)
      THEN IF c.manifest.id = m.id
             THEN IF c.manifest.version >= m.version
                    THEN [early |-> TRUE, ci |-> ci,
                          S |-> Return(rhizome_manifest_free(S, m), 0)]
                  ELSE IF ~m.selfSigned /\ rhizome_manifest_verify(m) # 0
                    THEN [early |-> TRUE, ci |-> ci,
                          S |-> Return(IgnoreAndFree(S, m, peer), -1)]
                  ELSE SuggestScanDisplacing(rhizome_fetch_unqueue(S, i, j),
                                             m, peer, qi, i, j, ci)
             ELSE SuggestScanDisplacing(S, m, peer, qi, i, j + 1,
                              IF ci = -1 /\ i = qi /\ c.priority <= NORMAL_PRIORITY
                                THEN j ELSE ci)
      ELSE SuggestScanDisplacing(S, m, peer, qi, i + 1, 0,
                       IF ci = -1 /\ i = qi THEN j ELSE ci)

\* The scan of every queue for the same bundle id (lines 896-927).  The result
\* is [early, S, ci]: early when the function returned from inside the loop.
RECURSIVE SuggestScan(_, _, _, _, _, _, _)
SuggestScan(S, m, peer, qi, i, j, ci) ==
  IF i >= NQUEUES THEN [early |-> FALSE, S |-> S, ci |-> ci]
  ELSE IF j >= QSize(i) THEN SuggestScan(S, m, peer, qi, i + 1, 0, ci)
  ELSE
    LET c == S.queues[i][j] IN
    IF ~IsNull(c.manifest)
      THEN IF c.manifest.id = m.id
             THEN IF c.manifest.version >= m.version
                    THEN [early |-> TRUE, ci |-> ci,
                          S |-> Return(rhizome_manifest_free(S, m), 0)]
                  ELSE IF ~m.selfSigned /\ rhizome_manifest_verify(m) # 0
                    THEN [early |-> TRUE, ci |-> ci,
                          S |-> Return(IgnoreAndFree(S, m, peer), -1)]
                  ELSE SuggestScan(rhizome_fetch_unqueue(S, i, j), m, peer, qi, i, j, ci)
             ELSE SuggestScan(S, m, peer, qi, i, j + 1,
                              IF ci = -1 /\ i = qi /\ c.priority < NORMAL_PRIORITY
                                THEN j ELSE ci)
      ELSE SuggestScan(S, m, peer, qi, i + 1, 0,
                       IF ci = -1 /\ i = qi THEN j ELSE ci)

\* (variant: an empty payload is queued like any other, not imported at once)
suggest_queueing_empty(S, m, peer) ==
  IF rhizome_manifest_version_cache_lookup(S, m) # 0
    THEN Return(rhizome_manifest_free(S, m), -1)
  ELSE
    LET qi == rhizome_find_queue(m.fileLength) IN
    IF qi = -1 THEN Return(rhizome_manifest_free(S, m), -1)
    ELSE
      LET r == SuggestScan(S, m, peer, qi, 0, 0, -1) IN
      IF r.early THEN r.S
      ELSE IF r.ci = -1 THEN Return(rhizome_manifest_free(r.S, m), 1)
      ELSE IF ~m.selfSigned /\ rhizome_manifest_verify(m) # 0
        THEN Return(IgnoreAndFree(r.S, m, peer), -1)
      ELSE
        LET S1 == rhizome_fetch_insert(r.S, qi, r.ci)
            S2 == [S1 EXCEPT !.queues[qi][r.ci] =
                     [manifest |-> m, peer |-> peer, priority |-> NORMAL_PRIORITY]]
        IN  Return(ScheduleActivation(S2), 0)

\* after the scan r of the queues (lines 929-976)
SuggestInsert(r, m, peer, qi) ==
  IF r.early THEN r.S
  ELSE IF r.ci = -1 THEN Return(rhizome_manifest_free(r.S, m), 1)
  ELSE IF ~m.selfSigned /\ rhizome_manifest_verify(m) # 0
    THEN Return(IgnoreAndFree(r.S, m, peer), -1)
  ELSE
    LET S1 == rhizome_fetch_insert(r.S, qi, r.ci)
        S2 == [S1 EXCEPT !.queues[qi][r.ci] =
                 [manifest |-> m, peer |-> peer, priority |-> NORMAL_PRIORITY]]
    IN  Return(ScheduleActivation(S2), 0)

rhizome_suggest_queue_manifest_import(S, m, peer) ==
  IF rhizome_manifest_version_cache_lookup(S, m) # 0
    THEN Return(rhizome_manifest_free(S, m), -1)
  ELSE IF m.fileLength = 0
    THEN IF rhizome_manifest_verify(m) # 0
           THEN Return(IgnoreAndFree(S, m, peer), -1)
           ELSE Return(rhizome_import_received_bundle(S, m, S.env.importOk), 0)
  ELSE
    LET qi == rhizome_find_queue(m.fileLength) IN
    IF qi = -1 THEN Return(rhizome_manifest_free(S, m), -1)
    ELSE SuggestInsert(SuggestScan(S, m, peer, qi, 0, 0, -1), m, peer, qi)

-----------------------------------------------------------------------------
(* Fetch slots *)

FREE == "FREE"
CONNECTING == "CONNECTING"
SENDINGHTTPREQUEST == "SENDINGHTTPREQUEST"
RXHTTPHEADERS == "RXHTTPHEADERS"
RXFILE == "RXFILE"
RXFILEMDP == "RXFILEMDP"

NoFile == << >>
PayloadPath(id) == << "payload", id >>
ManifestPath(prefix, len) == << "manifest", prefix, len >>

\* struct sched_ent: function is "none", "poll" (rhizome_fetch_poll) or "mdp"
\* (rhizome_fetch_mdp_slot_callback); events is the set of poll events watched
\* armed counts the schedule() calls since the alarm last fired or was unscheduled
EmptyAlarm ==
  [fd |-> 0, watched |-> FALSE, events |-> {}, scheduled |-> FALSE, armed |-> 0,
   alarm |-> 0, function |-> "none"]

\* the zero-initialised static slot
EmptySlot ==
  [alarm |-> EmptyAlarm, manifest |-> NoManifest, peer |-> NoPeer,
   state |-> FREE, file |-> FALSE, filename |-> NoFile,
   file_len |-> 0, file_ofs |-> 0, request_len |-> 0, request_ofs |-> 0,
   bid |-> 0, bidVersion |-> 0, bidP |-> 0, prefix |-> 0, prefix_length |-> 0,
   mdpNextTX |-> 0, mdpLastRX |-> 0, mdpIdleTimeout |-> 0,
   mdpRXWindowStart |-> 0, mdpRXBlockLength |-> 0, mdpRXBitmap |-> 0]

\* strlen of "GET /rhizome/file/<64 hex digits> HTTP/1.0\r\n\r\n"
FileRequestLen == 95
\* strlen of "GET /rhizome/manifestbyprefix/<hex prefix> HTTP/1.0\r\n\r\n"
ManifestRequestLen(prefix_length) == 43 + 2 * prefix_length
\* the descriptor socket() returns for slot k
SocketOf(k) == 10 + k

Faulted(S) == S.fault # "none"
Fault(S, what) == [S EXCEPT !.fault = what, !.ret = "FAULT"]

unwatch(S, k) == [S EXCEPT !.slots[k].alarm.watched = FALSE]
unschedule(S, k) ==
  [S EXCEPT !.slots[k].alarm.scheduled = FALSE, !.slots[k].alarm.armed = 0]
schedule(S, k) ==
  [S EXCEPT !.slots[k].alarm.scheduled = TRUE, !.slots[k].alarm.armed = @ + 1]

\* the record of one thing a handler did to slot k: was and slot are the slot
\* before and after it; n, there and rel depend on the type
Event(type, k, was, slot, n, there, rel) ==
  [type |-> type, k |-> k, was |-> was, slot |-> slot, n |-> n,
   there |-> there, rel |-> rel,
   q |-> -1, i |-> -1, h |-> 0, res |-> "", before |-> << >>, after |-> << >>]
Ev(S, e) == [S EXCEPT !.events = Append(@, e)]
\* slot->state = st
SetState(S, k, st) ==
  LET S1 == [S EXCEPT !.slots[k].state = st]
  IN  Ev(S1, Event("state", k, S.slots[k], S1.slots[k], 0, FALSE, 0))
\* a re-arm that leaves the alarm set before in place
ResetIdleTimeoutStacking(S, k) ==
  schedule([S EXCEPT !.slots[k].alarm.alarm = S.env.now + RHIZOME_IDLE_TIMEOUT], k)

\* no re-arm at all: the alarm stays where it was set before
ResetIdleTimeoutNever(S, k) == S

ResetIdleTimeout(S, k) ==
  schedule([unschedule(S, k) EXCEPT
              !.slots[k].alarm.alarm = S.env.now + RHIZOME_IDLE_TIMEOUT], k)

\* a search that takes the last free slot that is large enough
find_last_fetch_slot(S, size) ==
  LET ok == { i \in QueueNos :
                /\ QThreshold(i) < 0 \/ size < QThreshold(i)
                /\ S.slots[i].state = FREE }
  IN  IF ok = {} THEN -1 ELSE CHOOSE i \in ok : \A k \in ok : i >= k

rhizome_find_fetch_slot(S, size) ==
  LET ok == { i \in QueueNos :
                /\ QThreshold(i) < 0 \/ size < QThreshold(i)
                /\ S.slots[i].state = FREE }
  IN  IF ok = {} THEN -1 ELSE CHOOSE i \in ok : \A k \in ok : i <= k

RECURSIVE rhizome_fetch_close(_, _)

-----------------------------------------------------------------------------
(* MDP transport *)

\* the slot is given up as idle
TimedOut(S, k) ==
  rhizome_fetch_close(
    Ev(S, Event("idle", k, S.slots[k], S.slots[k], 0, FALSE, 0)), k)

\* overlay_mdp_dispatch of a block request (n: the window start it carries) or of
\* a manifest request (n: the length of the prefix)
Dispatch(S, k, type, n) ==
  Ev(S, Event(type, k, S.slots[k], S.slots[k], n, FALSE, 0))

rhizome_fetch_mdp_requestblocks(S, k) ==
  IF S.env.now - S.slots[k].mdpLastRX > S.slots[k].mdpIdleTimeout
    THEN TimedOut(S, k)
    ELSE
      LET S1 == [S EXCEPT !.slots[k].mdpNextTX = S.env.now + MDP_BLOCK_TX_INTERVAL]
          S2 == Dispatch(S1, k, "blocks", S1.slots[k].mdpRXWindowStart)
      IN  schedule([S2 EXCEPT !.slots[k].alarm.function = "mdp",
                              !.slots[k].alarm.alarm = S2.slots[k].mdpNextTX], k)

rhizome_fetch_mdp_requestmanifest(S, k) ==
  IF S.slots[k].prefix_length < 1 \/ S.slots[k].prefix_length > 32
    THEN rhizome_fetch_close(S, k)
  ELSE IF S.env.now - S.slots[k].mdpLastRX > S.slots[k].mdpIdleTimeout
    THEN TimedOut(S, k)
    ELSE
      LET S1 == [S EXCEPT !.slots[k].mdpNextTX = S.env.now + MDP_MANIFEST_TX_INTERVAL]
          S2 == Dispatch(S1, k, "manifest", S1.slots[k].prefix_length)
      IN  schedule([S2 EXCEPT !.slots[k].alarm.function = "mdp",
                              !.slots[k].alarm.alarm = S2.slots[k].mdpNextTX], k)

\* lines 1125-1148, the socket being closed; was is the slot as it came
\* the slot is set for datagrams, no request sent yet: was is the slot as it
\* came.  n: the streams open on the scratch file; there: the file is still
\* in the directory
Switched(S, k, was) ==
  Ev(S, Event("switch", k, was, S.slots[k], S.scratch[k].open,
              was.filename \in S.fs, 0))

\* a fall back that asks for the payload again from its first byte
BeginMdpFromStart(S, k, was) ==
  LET S3 == [S EXCEPT !.slots[k].mdpLastRX = S.env.now,
                      !.rx_time[k] = S.env.now]
  IN  IF S.slots[k].bidP # 0
        THEN rhizome_fetch_mdp_requestblocks(
               Switched(
                 [S3 EXCEPT !.slots[k].mdpIdleTimeout = MDP_FILE_IDLE_TIMEOUT,
                            !.slots[k].mdpRXWindowStart = 0,
                            !.slots[k].mdpRXBitmap = 0,
                            !.slots[k].mdpRXBlockLength = MDP_BLOCK_LENGTH],
                 k, was), k)
        ELSE rhizome_fetch_mdp_requestmanifest(
               Switched(
                 [S3 EXCEPT !.slots[k].mdpNextTX = S.env.now + MDP_MANIFEST_TX_INTERVAL,
                            !.slots[k].mdpIdleTimeout = MDP_MANIFEST_IDLE_TIMEOUT],
                 k, was), k)

BeginMdp(S, k, was) ==
  LET S3 == [S EXCEPT !.slots[k].mdpLastRX = S.env.now,
                      !.rx_time[k] = S.env.now]
  IN  IF S.slots[k].bidP # 0
        THEN rhizome_fetch_mdp_requestblocks(
               Switched(
                 [S3 EXCEPT !.slots[k].mdpIdleTimeout = MDP_FILE_IDLE_TIMEOUT,
                            !.slots[k].mdpRXWindowStart = S.slots[k].file_ofs,
                            !.slots[k].mdpRXBitmap = 0,
                            !.slots[k].mdpRXBlockLength = MDP_BLOCK_LENGTH],
                 k, was), k)
        ELSE rhizome_fetch_mdp_requestmanifest(
               Switched(
                 [S3 EXCEPT !.slots[k].mdpNextTX = S.env.now + MDP_MANIFEST_TX_INTERVAL,
                            !.slots[k].mdpIdleTimeout = MDP_MANIFEST_IDLE_TIMEOUT],
                 k, was), k)

rhizome_fetch_switch_to_mdp(S, k) ==
  BeginMdp([unschedule(unwatch(S, k), k) EXCEPT !.slots[k].alarm.fd = -1],
           k, S.slots[k])

rhizome_fetch_mdp_slot_callback(S, k) ==
  IF S.env.now - S.slots[k].mdpLastRX > S.slots[k].mdpIdleTimeout
    THEN TimedOut(S, k)
  ELSE IF S.slots[k].bidP # 0
    THEN rhizome_fetch_mdp_requestblocks(S, k)
    ELSE rhizome_fetch_mdp_requestmanifest(S, k)

-----------------------------------------------------------------------------
(* schedule_fetch: env.sched is what the system calls do: "ok", "nofile"    *)
(* (the import directory or fopen fails) or "noconnect" (socket,            *)
(* set_nonblock or connect fails)                                           *)

schedule_fetch(S, k) ==
  IF S.env.sched = "nofile" THEN Return(S, -1)
  ELSE
    \* fopen(slot->filename, "w"): the file is there, empty, with one more stream on it
    LET S1 == [S EXCEPT !.fs = @ \cup { S.slots[k].filename },
                        !.scratch[k].open = @ + 1,
                        !.scratch[k].bytes = 0] IN
    IF S1.slots[k].peer.ip /\ S.env.sched = "ok"
      THEN
        LET S2 == SetState([S1 EXCEPT !.slots[k].alarm.fd = SocketOf(k),
                                      !.slots[k].request_ofs = 0], k, CONNECTING)
        IN  Return(
              schedule([S2 EXCEPT
                !.slots[k].file = TRUE,
                !.slots[k].file_len = -1,
                !.slots[k].file_ofs = 0,
                !.slots[k].alarm.function = "poll",
                !.slots[k].alarm.events = { "POLLIN", "POLLOUT" },
                !.slots[k].alarm.watched = TRUE,
                !.slots[k].alarm.alarm = S.env.now + RHIZOME_IDLE_TIMEOUT], k), 0)
      ELSE Return(rhizome_fetch_switch_to_mdp(SetState(S1, k, RXFILEMDP), k), 0)

-----------------------------------------------------------------------------
(* rhizome_fetch *)

\* The scan of the active slots for the same bundle (lines 667-685): "" when
\* none matches.  Reading the manifest of a slot that has none is a fault.
RECURSIVE SameBundleScan(_, _, _)
\* a scan that finds no fetch of the bundle under way
SameBundleScanBlind(S, m, i) == ""

SameBundleScan(S, m, i) ==
  IF i >= NQUEUES THEN ""
  ELSE
    LET as == S.slots[i] IN
    IF as.state # FREE
      THEN IF IsNull(as.manifest) THEN "FAULT"
           ELSE IF as.manifest.id = m.id
             THEN IF as.manifest.version < m.version THEN OLDERBUNDLE
                  ELSE IF as.manifest.version > m.version THEN NEWERBUNDLE
                  ELSE SAMEBUNDLE
             ELSE SameBundleScan(S, m, i + 1)
      ELSE SameBundleScan(S, m, i + 1)

\* The scan of the active slots for the same payload (lines 703-711)
SamePayloadScan(S, m) ==
  \E i \in QueueNos :
     S.slots[i].state # FREE /\ S.slots[i].manifest.hash = m.hash

\* what follows schedule_fetch(slot) in its two callers (lines 737-743, 777-781)
Scheduled(S, k) ==
  IF S.ret = -1
    THEN Return([S EXCEPT !.slots[k].filename = NoFile], FETCHERROR)
    ELSE Return(S, STARTED)

rhizome_fetch(S, k, m, peer) ==
  IF S.slots[k].state # FREE THEN Return(S, SLOTBUSY)
  ELSE IF m.fileLength = 0
    THEN Return(rhizome_import_received_bundle(S, m, S.env.importOk),
                IF S.env.importOk THEN IMPORTED ELSE FETCHERROR)
  ELSE IF rhizome_manifest_version_cache_lookup(S, m) # 0
    THEN Return(S, SUPERSEDED)
  ELSE
    LET same == SameBundleScan(S, m, 0) IN
    IF same = "FAULT" THEN Fault(S, "null manifest read")
    ELSE IF same # "" THEN Return(S, same)
    ELSE IF m.hash \in S.files
      THEN Return(StoreBundle(S, m, S.env.importOk),
                  IF S.env.importOk THEN IMPORTED ELSE FETCHERROR)
    ELSE IF SamePayloadScan(S, m) THEN Return(S, SAMEPAYLOAD)
    ELSE
      Scheduled(schedule_fetch(
                  [S EXCEPT
                     !.slots[k].peer = peer,
                     !.slots[k].request_len = FileRequestLen,
                     !.slots[k].bid = m.id,
                     !.slots[k].bidVersion = m.version,
                     !.slots[k].bidP = 1,
                     !.slots[k].filename = PayloadPath(m.id),
                     !.slots[k].manifest = m], k), k)

rhizome_fetch_request_manifest_by_prefix(S, peer, prefix, prefix_length) ==
  LET k == rhizome_find_fetch_slot(S, MAX_MANIFEST_BYTES) IN
  IF k = -1 THEN Return(S, SLOTBUSY)
  ELSE
    Scheduled(schedule_fetch(
                [S EXCEPT
                   !.slots[k].peer = peer,
                   !.slots[k].manifest = NoManifest,
                   !.slots[k].request_len = ManifestRequestLen(prefix_length),
                   !.slots[k].prefix = prefix,
                   !.slots[k].prefix_length = prefix_length,
                   !.slots[k].bidP = 0,
                   !.slots[k].filename = ManifestPath(prefix, prefix_length)], k), k)

-----------------------------------------------------------------------------
(* rhizome_start_next_queued_fetch: q and i are the loop variables *)

RECURSIVE StartNextLoop(_, _, _, _)
\* candidate i of queue q was offered to slot k with result res: S0 is the
\* state before the call of rhizome_fetch, S2 the state after the case of the
\* switch was run
Offered(S2, S0, k, q, i, res) ==
  Ev(S2, [Event("offer", k, S0.slots[k], S2.slots[k],
                S0.released[S0.queues[q][i].manifest.h], FALSE,
                S2.released[S0.queues[q][i].manifest.h])
            EXCEPT !.q = q, !.i = i, !.h = S0.queues[q][i].manifest.h,
                   !.res = res, !.before = S0.queues, !.after = S2.queues])

\* a switch that discards the candidate of a newer version as well
StartNextResultDiscarding(S1, k, q, i, S0) ==
  CASE S1.ret = "FAULT" -> S1
    [] S1.ret = SLOTBUSY -> Offered(S1, S0, k, q, i, SLOTBUSY)
    [] S1.ret = STARTED ->
         Offered(rhizome_fetch_unqueue(
                   [S1 EXCEPT !.queues[q][i].manifest = NoManifest], q, i),
                 S0, k, q, i, STARTED)
    [] OTHER ->
         StartNextLoop(Offered(rhizome_fetch_unqueue(S1, q, i), S0, k, q, i, S1.ret),
                       k, q, i)

\* a switch that keeps every candidate it does not start
StartNextResultKeeping(S1, k, q, i, S0) ==
  CASE S1.ret = "FAULT" -> S1
    [] S1.ret = SLOTBUSY -> Offered(S1, S0, k, q, i, SLOTBUSY)
    [] S1.ret = STARTED ->
         Offered(rhizome_fetch_unqueue(
                   [S1 EXCEPT !.queues[q][i].manifest = NoManifest], q, i),
                 S0, k, q, i, STARTED)
    [] OTHER ->
         StartNextLoop(Offered(S1, S0, k, q, i, S1.ret), k, q, i + 1)

\* a switch that leaves the manifest of a started candidate to unqueue
StartNextResultReleasing(S1, k, q, i, S0) ==
  CASE S1.ret = "FAULT" -> S1
    [] S1.ret = SLOTBUSY -> Offered(S1, S0, k, q, i, SLOTBUSY)
    [] S1.ret = STARTED ->
         Offered(rhizome_fetch_unqueue(S1, q, i), S0, k, q, i, STARTED)
    [] S1.ret = OLDERBUNDLE ->
         StartNextLoop(Offered(S1, S0, k, q, i, OLDERBUNDLE), k, q, i + 1)
    [] OTHER ->
         StartNextLoop(Offered(rhizome_fetch_unqueue(S1, q, i), S0, k, q, i, S1.ret),
                       k, q, i)

\* the switch on the result of rhizome_fetch (lines 797-818)
StartNextResult(S1, k, q, i, S0) ==
  CASE S1.ret = "FAULT" -> S1
    [] S1.ret = SLOTBUSY -> Offered(S1, S0, k, q, i, SLOTBUSY)
    [] S1.ret = STARTED ->
         Offered(rhizome_fetch_unqueue(
                   [S1 EXCEPT !.queues[q][i].manifest = NoManifest], q, i),
                 S0, k, q, i, STARTED)
    [] S1.ret = OLDERBUNDLE ->
         StartNextLoop(Offered(S1, S0, k, q, i, OLDERBUNDLE), k, q, i + 1)
    [] OTHER ->
         StartNextLoop(Offered(rhizome_fetch_unqueue(S1, q, i), S0, k, q, i, S1.ret),
                       k, q, i)

StartNextLoop(S, k, q, i) ==
  IF q < 0 THEN S
  ELSE IF ~(i < QSize(q) /\ ~IsNull(S.queues[q][i].manifest))
    THEN StartNextLoop(S, k, q - 1, 0)
  ELSE
    StartNextResult(
      rhizome_fetch(S, k, S.queues[q][i].manifest, S.queues[q][i].peer), k, q, i, S)

\* a scan that begins at the last queue whichever the slot
start_next_from_last_queue(S, k) ==
  StartNextLoop(Ev(S, Event("start_next", k, S.slots[k], S.slots[k], 0, FALSE, 0)),
                k, NQUEUES - 1, 0)

rhizome_start_next_queued_fetch(S, k) ==
  StartNextLoop(Ev(S, Event("start_next", k, S.slots[k], S.slots[k], 0, FALSE, 0)),
                k, k, 0)

RECURSIVE StartAllDown(_, _)
\* a tick that goes from the last slot down to the first
StartAllDown(S, i) ==
  IF i >= NQUEUES \/ Faulted(S) THEN S
  ELSE StartAllDown(rhizome_start_next_queued_fetch(S, NQUEUES - 1 - i), i + 1)

RECURSIVE StartAll(_, _)
StartAll(S, i) ==
  IF i >= NQUEUES \/ Faulted(S) THEN S
  ELSE StartAll(rhizome_start_next_queued_fetch(S, i), i + 1)

rhizome_start_next_queued_fetches(S) == StartAll(S, 0)

-----------------------------------------------------------------------------
(* rhizome_fetch_close *)

\* the slot is closed: sl is the slot as it was.  n: the streams left open on
\* the scratch file; there: the file is still in the directory; rel: the
\* releases of the manifest the slot held
Closed(S, k, sl) ==
  Ev(S, Event("close", k, sl, S.slots[k], S.scratch[k].open,
              sl.filename \in S.fs,
              IF IsNull(sl.manifest) THEN 0 ELSE S.released[sl.manifest.h]))

rhizome_fetch_close(S, k) ==
  IF S.slots[k].state = FREE THEN Fault(S, "assert state != FREE")
  ELSE
    LET sl == S.slots[k]
        S1 == [unschedule(unwatch(S, k), k) EXCEPT
                 !.slots[k].alarm.fd = -1,
                 !.slots[k].file = FALSE,
                 !.slots[k].manifest = NoManifest,
                 !.slots[k].filename = NoFile,
                 !.slots[k].state = FREE,
                 !.scratch[k].open = IF sl.file THEN @ - 1 ELSE @,
                 !.fs = IF sl.filename # NoFile THEN @ \ { sl.filename } ELSE @]
    IN  rhizome_start_next_queued_fetch(
          Closed(IF ~IsNull(sl.manifest)
                   THEN rhizome_manifest_free(S1, sl.manifest) ELSE S1, k, sl), k)

-----------------------------------------------------------------------------
(* rhizome_write_content: bytes is the length of the buffer.  env.fwriteOk  *)
(* is whether the file system takes the bytes; env.rx is the manifest read  *)
(* back from the scratch file of a manifest fetch, NoManifest when unreadable *)

\* a writer that takes the payload for whole as soon as it holds a byte
write_content_eager(S, k, bytes0) ==
  LET sl == S.slots[k]
      bytes == IF bytes0 > sl.file_len - sl.file_ofs
                 THEN sl.file_len - sl.file_ofs ELSE bytes0
  IN
  \* fwrite to a null FILE, or of a negative length, is undefined: the process
  \* faults (the library touches the stream or the buffer), or fwrite returns 0;
  \* fwrite of no byte returns 0
  IF ~sl.file /\ S.env.fwriteOk THEN Fault(S, "fwrite to a null FILE")
  ELSE IF bytes < 0 /\ S.env.fwriteOk THEN Fault(S, "fwrite of a negative length")
  ELSE IF ~sl.file \/ bytes <= 0 \/ ~S.env.fwriteOk THEN rhizome_fetch_close(S, k)
  ELSE
    LET S1 == [S EXCEPT !.slots[k].file_ofs = @ + bytes,
                        !.scratch[k].bytes = @ + bytes] IN
    IF S1.slots[k].file_ofs > 0
      THEN
        LET S2 == [S1 EXCEPT !.slots[k].file = FALSE,
                             !.scratch[k].open = @ - 1]
            \* n: the bytes the scratch file holds when it is handed over
            S3 == IF ~IsNull(sl.manifest)
                    THEN rhizome_import_received_bundle(
                           Ev(S2, Event("import", k, sl, S2.slots[k],
                                        S2.scratch[k].bytes, FALSE, 0)),
                           sl.manifest, S.env.importOk)
                  ELSE IF IsNull(S.env.rx) THEN S2
                  ELSE rhizome_suggest_queue_manifest_import(
                         [S2 EXCEPT !.nextH = @ + 1], S.env.rx, sl.peer)
        IN  rhizome_fetch_close(S3, k)
      ELSE ResetIdleTimeout(S1, k)

\* a writer that leaves the alarm of the slot as it is
write_content_keeping_alarm(S, k, bytes0) ==
  LET sl == S.slots[k]
      bytes == IF bytes0 > sl.file_len - sl.file_ofs
                 THEN sl.file_len - sl.file_ofs ELSE bytes0
  IN
  \* fwrite to a null FILE, or of a negative length, is undefined: the process
  \* faults (the library touches the stream or the buffer), or fwrite returns 0;
  \* fwrite of no byte returns 0
  IF ~sl.file /\ S.env.fwriteOk THEN Fault(S, "fwrite to a null FILE")
  ELSE IF bytes < 0 /\ S.env.fwriteOk THEN Fault(S, "fwrite of a negative length")
  ELSE IF ~sl.file \/ bytes <= 0 \/ ~S.env.fwriteOk THEN rhizome_fetch_close(S, k)
  ELSE
    LET S1 == [S EXCEPT !.slots[k].file_ofs = @ + bytes,
                        !.scratch[k].bytes = @ + bytes] IN
    IF S1.slots[k].file_ofs >= S1.slots[k].file_len
      THEN
        LET S2 == [S1 EXCEPT !.slots[k].file = FALSE,
                             !.scratch[k].open = @ - 1]
            \* n: the bytes the scratch file holds when it is handed over
            S3 == IF ~IsNull(sl.manifest)
                    THEN rhizome_import_received_bundle(
                           Ev(S2, Event("import", k, sl, S2.slots[k],
                                        S2.scratch[k].bytes, FALSE, 0)),
                           sl.manifest, S.env.importOk)
                  ELSE IF IsNull(S.env.rx) THEN S2
                  ELSE rhizome_suggest_queue_manifest_import(
                         [S2 EXCEPT !.nextH = @ + 1], S.env.rx, sl.peer)
        IN  rhizome_fetch_close(S3, k)
      ELSE S1

rhizome_write_content(S, k, bytes0) ==
  LET sl == S.slots[k]
      bytes == IF bytes0 > sl.file_len - sl.file_ofs
                 THEN sl.file_len - sl.file_ofs ELSE bytes0
  IN
  \* fwrite to a null FILE, or of a negative length, is undefined: the process
  \* faults (the library touches the stream or the buffer), or fwrite returns 0;
  \* fwrite of no byte returns 0
  IF ~sl.file /\ S.env.fwriteOk THEN Fault(S, "fwrite to a null FILE")
  ELSE IF bytes < 0 /\ S.env.fwriteOk THEN Fault(S, "fwrite of a negative length")
  ELSE IF ~sl.file \/ bytes <= 0 \/ ~S.env.fwriteOk THEN rhizome_fetch_close(S, k)
  ELSE
    LET S1 == [S EXCEPT !.slots[k].file_ofs = @ + bytes,
                        !.scratch[k].bytes = @ + bytes] IN
    IF S1.slots[k].file_ofs >= S1.slots[k].file_len
      THEN
        LET S2 == [S1 EXCEPT !.slots[k].file = FALSE,
                             !.scratch[k].open = @ - 1]
            \* n: the bytes the scratch file holds when it is handed over
            S3 == IF ~IsNull(sl.manifest)
                    THEN rhizome_import_received_bundle(
                           Ev(S2, Event("import", k, sl, S2.slots[k],
                                        S2.scratch[k].bytes, FALSE, 0)),
                           sl.manifest, S.env.importOk)
                  ELSE IF IsNull(S.env.rx) THEN S2
                  ELSE rhizome_suggest_queue_manifest_import(
                         [S2 EXCEPT !.nextH = @ + 1], S.env.rx, sl.peer)
        IN  rhizome_fetch_close(S3, k)
      ELSE ResetIdleTimeout(S1, k)

-----------------------------------------------------------------------------
(* rhizome_received_content: the first slot with bidP set whose bid has the *)
(* datagram's prefix takes the datagram                                     *)

ContentSlot(S, bid) ==
  LET hit == { i \in QueueNos : S.slots[i].bidP # 0 /\ S.slots[i].bid = bid }
  IN  IF hit = {} THEN -1 ELSE CHOOSE i \in hit : \A k \in hit : i <= k

\* a receiver that leaves the window where the last request put it
ContentWrittenKeepingWindow(S, k, offset, count) ==
  IF Faulted(S) THEN S ELSE Return(S, 0)

\* after rhizome_write_content (lines 1270-1273)
ContentWritten(S, k, offset, count) ==
  IF Faulted(S) THEN S
  ELSE Return([S EXCEPT !.slots[k].mdpRXWindowStart = offset + count], 0)

\* the slot takes a datagram: was is the slot as it came.  n: the offset the
\* datagram ends at; there: the datagram is the last of the payload
Absorbing(S, k, was, n, type) ==
  Ev(S, Event("datagram", k, was, S.slots[k], n, type = "T", 0))

rhizome_received_content(S, bid, offset, count, type) ==
  LET k == ContentSlot(S, bid) IN
  IF k = -1 THEN Return(S, -1)
  ELSE IF S.slots[k].file_ofs = offset
    THEN
      \* rx_time: the slot takes this datagram now
      LET S1 == [S EXCEPT !.slots[k].file_len =
                   IF type = "T" THEN offset + count ELSE offset + count + 1,
                          !.rx_time[k] = S.env.now]
      IN  ContentWritten(
            rhizome_write_content(Absorbing(S1, k, S.slots[k], offset + count, type),
                                  k, count),
            k, offset, count)
    ELSE Return(S, 0)

-----------------------------------------------------------------------------
(* rhizome_fetch_write: bytes is what write_nonblock returns *)

\* a writer that takes the response for begun when the request is sent
fetch_write_to_body(S, k, bytes) ==
  IF bytes = -1 THEN rhizome_fetch_switch_to_mdp(S, k)
  ELSE
    LET S1 == [ResetIdleTimeout(S, k) EXCEPT !.slots[k].request_ofs = @ + bytes] IN
    IF S1.slots[k].request_ofs >= S1.slots[k].request_len
      THEN [SetState([S1 EXCEPT !.slots[k].request_len = 0,
                                !.slots[k].request_ofs = 0], k, RXFILE)
              EXCEPT !.slots[k].alarm.events = { "POLLIN" },
                     !.slots[k].alarm.watched = TRUE]
    ELSE IF S1.slots[k].state = CONNECTING
      THEN SetState(S1, k, SENDINGHTTPREQUEST)
      ELSE S1

rhizome_fetch_write(S, k, bytes) ==
  IF bytes = -1 THEN rhizome_fetch_switch_to_mdp(S, k)
  ELSE
    LET S1 == [ResetIdleTimeout(S, k) EXCEPT !.slots[k].request_ofs = @ + bytes] IN
    IF S1.slots[k].request_ofs >= S1.slots[k].request_len
      THEN [SetState([S1 EXCEPT !.slots[k].request_len = 0,
                                !.slots[k].request_ofs = 0], k, RXHTTPHEADERS)
              EXCEPT !.slots[k].alarm.events = { "POLLIN" },
                     !.slots[k].alarm.watched = TRUE]
    ELSE IF S1.slots[k].state = CONNECTING
      THEN SetState(S1, k, SENDINGHTTPREQUEST)
      ELSE S1

-----------------------------------------------------------------------------
(* rhizome_fetch_poll.  revents is the set of poll events reported (empty   *)
(* when the alarm timed out).  io is what the system call made in the       *)
(* handler does:                                                            *)
(*   io.bytes     what write_nonblock or read_nonblock returns              *)
(*   io.complete  http_header_complete() of the bytes read so far           *)
(*   io.unpack    what unpack_http_response() returns                       *)
(*   io.code, io.content_length   the parts unpacked                        *)
(*   io.content_bytes   the bytes read past the end of the headers          *)

\* an end of the handler that answers a timeout or a hang-up by falling back
PollTailFallingBack(S, k, revents) ==
  IF Faulted(S) THEN S
  ELSE IF revents = {} \/ revents \cap { "POLLHUP", "POLLERR" } # {}
    THEN rhizome_fetch_switch_to_mdp(S, k) ELSE S

PollTail(S, k, revents) ==
  IF Faulted(S) THEN S
  ELSE IF revents = {} \/ revents \cap { "POLLHUP", "POLLERR" } # {}
    THEN rhizome_fetch_close(S, k) ELSE S

rhizome_fetch_poll(S, k, revents, io) ==
  LET sl == S.slots[k] IN
  IF revents \cap { "POLLIN", "POLLOUT" } # {}
    THEN
      CASE sl.state \in { CONNECTING, SENDINGHTTPREQUEST } ->
             rhizome_fetch_write(S, k, io.bytes)
        [] sl.state = RXFILEMDP ->
             PollTail(rhizome_fetch_close(S, k), k, revents)
        [] sl.state = RXFILE ->
             IF io.bytes > 0 THEN rhizome_write_content(S, k, io.bytes)
             ELSE rhizome_fetch_switch_to_mdp(S, k)
        [] sl.state = RXHTTPHEADERS ->
             IF io.bytes > 0
               THEN
                 LET S1 == [ResetIdleTimeout(S, k) EXCEPT
                              !.slots[k].request_len = @ + io.bytes]
                 IN
                 IF io.complete
                   THEN IF io.unpack = -1 THEN rhizome_fetch_switch_to_mdp(S1, k)
                        ELSE IF io.code # 200 THEN rhizome_fetch_switch_to_mdp(S1, k)
                        ELSE IF io.content_length = -1
                          THEN rhizome_fetch_switch_to_mdp(S1, k)
                        ELSE
                          LET S2 == SetState(
                                      [S1 EXCEPT !.slots[k].file_len = io.content_length],
                                      k, RXFILE)
                          IN  IF io.content_bytes > 0
                                THEN rhizome_write_content(S2, k, io.content_bytes)
                                ELSE PollTail(S2, k, revents)
                   ELSE PollTail(S1, k, revents)
               ELSE PollTail(S, k, revents)
        [] OTHER -> rhizome_fetch_close(S, k)
    ELSE PollTail(S, k, revents)

-----------------------------------------------------------------------------
(* The state the handlers work on, and what the environment decides *)

Env(rnd, importOk, sched, fwriteOk, rx) ==
  [now |-> now, rnd |-> rnd, importOk |-> importOk, sched |-> sched,
   fwriteOk |-> fwriteOk, rx |-> rx]

Cur(env) ==
  [queues |-> queues, slots |-> slots, sched_activate |-> sched_activate,
   store |-> store, files |-> files, ignored |-> ignored, released |-> released,
   imported |-> imported, fs |-> fs, scratch |-> scratch, rx_time |-> rx_time,
   events |-> << >>, fault |-> fault, nextH |-> nextH, ret |-> 0, env |-> env]

Commit(S) ==
  /\ queues' = S.queues
  /\ slots' = S.slots
  /\ sched_activate' = S.sched_activate
  /\ store' = S.store
  /\ files' = S.files
  /\ ignored' = S.ignored
  /\ released' = S.released
  /\ imported' = S.imported
  /\ fs' = S.fs
  /\ scratch' = S.scratch
  /\ rx_time' = S.rx_time
  /\ events' = S.events
  /\ fault' = S.fault
  /\ nextH' = S.nextH

Running == fault = "none"

\* The manifests a peer may advertise
Manifest(h, id, version, fileLength, hash, selfSigned, valid) ==
  [h |-> h, id |-> id, version |-> version, fileLength |-> fileLength,
   hash |-> hash, selfSigned |-> selfSigned, valid |-> valid]

\* signature kinds: verifies; does not verify; self-signed (taken on trust)
Kinds == { << FALSE, TRUE >>, << FALSE, FALSE >>, << TRUE, FALSE >> }
\* a payload is the bundle's own (hash = id) or one shared between bundles
SharedHash == 1
Shapes(ids, versions, sizes, kinds) ==
  { Manifest(0, id, v, len, hash, kd[1], kd[2]) :
      id \in ids, v \in versions, len \in sizes, kd \in kinds,
      hash \in { SharedHash } } \cup
  { Manifest(0, id, v, len, id, kd[1], kd[2]) :
      id \in ids, v \in versions, len \in sizes, kd \in kinds }

Last(op, m, peer, k, ret, res) ==
  [op |-> op, m |-> m, peer |-> peer, k |-> k, ret |-> ret, res |-> res]

-----------------------------------------------------------------------------
(* Initial state: empty queues, free slots, an empty store *)

Init ==
  /\ queues = [i \in QueueNos |-> [j \in 0 .. QSize(i) - 1 |-> EmptyCandidate]]
  /\ slots = [i \in QueueNos |-> EmptySlot]
  /\ sched_activate = [scheduled |-> FALSE, alarm |-> 0]
  /\ store = [id \in Ids |-> -1]
  /\ files = {}
  /\ ignored = [b \in { IgnoreBin(id) : id \in 0 .. MaxId } |->
                  [w \in IgnoreWays |-> EmptyIgnored]]
  /\ released = [h \in Handles |-> 0]
  /\ imported = [h \in Handles |-> 0]
  /\ fs = {}
  /\ scratch = [i \in QueueNos |-> [open |-> 0, bytes |-> 0]]
  /\ rx_time = [i \in QueueNos |-> 0]
  /\ events = << >>
  /\ fault = "none"
  /\ now = 0
  /\ nextH = 0
  /\ last = Last("init", NoManifest, NoPeer, -1, 0, "")

-----------------------------------------------------------------------------
(* What the environment may decide in a handler.  A choice is offered only  *)
(* where the handler can come to use it.                                    *)

SchedOutcomes == { "ok", "nofile", "noconnect" }

\* some candidate is queued in queues 0..k: closing slot k may start a fetch
MayStart(k) ==
  \E q \in 0 .. k : ~IsNull(queues[q][0].manifest)
\* a started fetch may find its payload in the store
MayFindPayload(k) == MayStart(k) /\ files # {}

SchedFor(k, outcomes) == IF MayStart(k) THEN outcomes ELSE { "ok" }
ImportFor(may) == IF may THEN BOOLEAN ELSE { TRUE }

\* random() is consulted only to replace an entry of the ignore cache
RndFor(m, ways) ==
  IF m.valid \/ IgnoreFind(ignored, m.id) < IGNORED_BIN_SIZE
    THEN { 0 } ELSE ways

RxManifests(shapes) ==
  { NoManifest } \cup
  (IF nextH < MaxManifests THEN { [sh EXCEPT !.h = nextH + 1] : sh \in shapes } ELSE {})

-----------------------------------------------------------------------------
(* Actions: one per handler *)

\* a peer advertises a manifest: rhizome_suggest_queue_manifest_import
SuggestWith(shapes, peers, ways) ==
  /\ Running
  /\ nextH < MaxManifests
  /\ \E sh \in shapes, peer \in peers :
     \E rnd \in RndFor(sh, ways), importOk \in ImportFor(sh.fileLength = 0 /\ sh.valid) :
       LET m == [sh EXCEPT !.h = nextH + 1]
           S0 == [Cur(Env(rnd, importOk, "ok", TRUE, NoManifest)) EXCEPT
                    !.nextH = nextH + 1]
           S == rhizome_suggest_queue_manifest_import(S0, m, peer)
       IN  /\ Commit(S)
           /\ last' = Last("suggest", m, peer, -1, S.ret, "")
  /\ UNCHANGED now

\* the activation alarm fires: rhizome_start_next_queued_fetches
ActivateWith(outcomes) ==
  /\ Running
  /\ sched_activate.scheduled
  /\ sched_activate.alarm <= now
  /\ \E importOk \in ImportFor(MayFindPayload(NQUEUES - 1)),
        sched \in SchedFor(NQUEUES - 1, outcomes) :
       LET S0 == [Cur(Env(0, importOk, sched, TRUE, NoManifest)) EXCEPT
                    !.sched_activate.scheduled = FALSE]
           S == rhizome_start_next_queued_fetches(S0)
       IN  /\ Commit(S)
           /\ last' = Last("activate", NoManifest, NoPeer, -1, 0, "")
  /\ UNCHANGED now

\* what the system calls of rhizome_fetch_poll may do, by slot state
IO(bytes, complete, unpack, code, content_length, content_bytes) ==
  [bytes |-> bytes, complete |-> complete, unpack |-> unpack, code |-> code,
   content_length |-> content_length, content_bytes |-> content_bytes]
NoIO == IO(0, FALSE, 0, 0, 0, 0)

RequestBufferSize == 1024

\* In the operators below io says what the sockets may do:
\*   io.writeChunk, io.readChunk   (> 0) the size of a partial write or read
\*   io.lengths   the Content-Length values a response may carry
\*   io.reads     the numbers of body bytes one read may return
\*   io.faults    whether calls may fail and the responder misbehave
\*   io.hangups   whether poll() may report a hang-up

\* write_nonblock: an error, the whole request, or at most chunk bytes
WriteIO(sl, io) ==
  LET rem == sl.request_len - sl.request_ofs
  IN  { IO(b, FALSE, 0, 0, 0, 0) :
          b \in (IF io.faults THEN { -1 } ELSE {}) \cup { rem } \cup
                (IF io.writeChunk > 0 THEN { Min(io.writeChunk, rem) } ELSE {}) }

\* read_nonblock into the request buffer: nothing; part of the headers; or the
\* end of the headers, malformed, refused, without a length, or good and
\* followed by some bytes of the body (no more than announced, unless io.faults)
HeaderIO(sl, io) ==
  LET room == RequestBufferSize - sl.request_len - 1
      n == IF io.readChunk > 0 THEN Min(io.readChunk, room) ELSE room
  IN  (IF io.faults THEN { IO(0, FALSE, 0, 0, 0, 0) } ELSE {}) \cup
      (IF n > 0
         THEN (IF io.readChunk > 0 THEN { IO(n, FALSE, 0, 0, 0, 0) } ELSE {}) \cup
              (IF io.faults
                 THEN { IO(n, TRUE, -1, -1, -1, 0),
                        IO(n, TRUE, 0, 500, -1, 0),
                        IO(n, TRUE, 0, 200, -1, 0) }
                 ELSE {}) \cup
              { IO(n, TRUE, 0, 200, p[1], p[2]) :
                  p \in { q \in io.lengths \X (io.reads \cup { 0 }) :
                            q[2] < n /\ (io.faults \/ q[2] <= q[1]) } }
         ELSE {})

\* read_nonblock of the body: some of the bytes still to come, the end of the
\* stream once they all came, or (io.faults) anything
BodyIO(sl, io) ==
  LET rem == sl.file_len - sl.file_ofs
  IN  { IO(b, FALSE, 0, 0, 0, 0) :
          b \in (IF io.faults THEN io.reads \cup { 0 }
                 ELSE IF rem > 0 THEN { r \in io.reads : 0 < r /\ r <= rem }
                 ELSE { 0 }) }

PollIOs(sl, io) ==
  CASE sl.state \in { CONNECTING, SENDINGHTTPREQUEST } -> WriteIO(sl, io)
    [] sl.state = RXHTTPHEADERS -> HeaderIO(sl, io)
    [] sl.state = RXFILE -> BodyIO(sl, io)
    [] OTHER -> { NoIO }

\* the events poll() may report for a watched descriptor: those asked for, with
\* or without a hang-up, or the hang-up alone
PollEvents(sl, io) ==
  { sl.alarm.events } \cup
  (IF io.hangups THEN { sl.alarm.events \cup { "POLLHUP" }, { "POLLHUP" } } ELSE {})

Receiving(sl) == sl.state \in { RXHTTPHEADERS, RXFILE }

\* the stream fault, if any, that poll() and the system call report to the
\* handler of a slot: revents and io as in rhizome_fetch_poll
StreamFault(sl, revents, io) ==
  IF revents = {} THEN "idle timeout"
  ELSE IF revents \cap { "POLLIN", "POLLOUT" } = {} THEN "hang-up"
  ELSE
    CASE sl.state \in { CONNECTING, SENDINGHTTPREQUEST } ->
           IF io.bytes = -1 THEN "write error" ELSE ""
      [] sl.state = RXFILE ->
           IF io.bytes <= 0 THEN "end of body" ELSE ""
      [] sl.state = RXHTTPHEADERS ->
           IF io.bytes <= 0 THEN "end of headers"
           ELSE IF ~io.complete THEN ""
           ELSE IF io.unpack = -1 THEN "malformed"
           ELSE IF io.code # 200 THEN "status"
           ELSE IF io.content_length = -1 THEN "no length"
           ELSE ""
      [] OTHER -> ""

\* the descriptor of slot k is ready, or has failed: rhizome_fetch_poll
PollReady(k, shapes, io, outcomes) ==
  /\ Running
  /\ slots[k].alarm.watched
  /\ \E revents \in PollEvents(slots[k], io), i \in PollIOs(slots[k], io) :
     \E importOk \in ImportFor(MayFindPayload(k) \/
                               (Receiving(slots[k]) /\ ~IsNull(slots[k].manifest))),
        sched \in SchedFor(k, outcomes),
        fwriteOk \in (IF Receiving(slots[k]) /\ io.faults THEN BOOLEAN ELSE { TRUE }),
        rx \in (IF Receiving(slots[k]) /\ IsNull(slots[k].manifest)
                  THEN RxManifests(shapes) ELSE { NoManifest }) :
       LET S == rhizome_fetch_poll(
                  Cur(Env(0, importOk, sched, fwriteOk, rx)), k, revents, i)
       IN  /\ Commit(S)
           /\ last' = Last("poll", NoManifest, NoPeer, k, 0,
                           StreamFault(slots[k], revents, i))
  /\ UNCHANGED now

\* The text of an HTTP response: a sequence of characters, with "SP", "CR"
\* and "LF" for the space, the carriage return and the line feed, and "NUL"
\* for what lies behind the text
At(text, p) == IF p \in 1 .. Len(text) THEN text[p] ELSE "NUL"
Decimals == << "0", "1", "2", "3", "4", "5", "6", "7", "8", "9" >>
isdigit(c) == \E i \in 1 .. Len(Decimals) : Decimals[i] = c
DigitOf(c) == (CHOOSE i \in 1 .. Len(Decimals) : Decimals[i] = c) - 1
tolower(c) == CASE c = "C" -> "c" [] c = "L" -> "l" [] OTHER -> c
\* str_startswith and strcase_startswith at position p of the text
str_startswith(text, p, prefix) ==
  \A i \in 1 .. Len(prefix) : At(text, p + i - 1) = prefix[i]
strcase_startswith(text, p, prefix) ==
  \A i \in 1 .. Len(prefix) : tolower(At(text, p + i - 1)) = tolower(prefix[i])
\* the position of the first line feed at or after p
LineEnd(text, p) ==
  CHOOSE e \in p .. Len(text) :
    text[e] = "LF" /\ \A i \in p .. e - 1 : text[i] # "LF"
\* the first position at or after p that holds no space, no digit
SkipSpaces(text, p) ==
  CHOOSE e \in p .. Len(text) + 1 :
    At(text, e) # "SP" /\ \A i \in p .. e - 1 : text[i] = "SP"
SkipDigits(text, p) ==
  CHOOSE e \in p .. Len(text) + 1 :
    ~isdigit(At(text, e)) /\ \A i \in p .. e - 1 : isdigit(text[i])
\* the number that the digits at positions p .. e - 1 spell
RECURSIVE DecimalValue(_, _, _)
DecimalValue(text, p, e) ==
  IF e <= p THEN 0
  ELSE DecimalValue(text, p, e - 1) * 10 + DigitOf(text[e - 1])

HttpPreamble == << "H", "T", "T", "P", "/", "1", ".", "0", "SP" >>
ContentLengthName ==
  << "C", "o", "n", "t", "e", "n", "t", "-", "L", "e", "n", "g", "t", "h", ":" >>
Parts(ret, code, content_length, content_start) ==
  [ret |-> ret, code |-> code, content_length |-> content_length,
   content_start |-> content_start]

\* the header lines from position p on, content_length being what the lines
\* before gave
RECURSIVE UnpackHeaders(_, _, _, _)
UnpackHeaders(text, p, code, content_length) ==
  IF At(text, p) = "LF" \/ (At(text, p) = "CR" /\ At(text, p + 1) = "LF")
    THEN Parts(0, code, content_length,
               (IF At(text, p) = "CR" THEN p + 1 ELSE p) + 1)
  ELSE IF strcase_startswith(text, p, ContentLengthName)
    THEN
      LET nump == SkipSpaces(text, p + Len(ContentLengthName))
          e == SkipDigits(text, nump)
          n == DecimalValue(text, nump, e)
      IN  IF e = nump \/ At(text, e) \notin { "CR", "LF" }
            THEN Parts(-1, code, n, 0)
            ELSE UnpackHeaders(text, LineEnd(text, e) + 1, code, n)
  ELSE UnpackHeaders(text, LineEnd(text, p) + 1, code, content_length)

\* a parser that takes any protocol version
unpack_any_version(text) ==
  LET p == Len(HttpPreamble) + 1 IN
  IF ~(isdigit(At(text, p)) /\ isdigit(At(text, p + 1)) /\ isdigit(At(text, p + 2))
        /\ At(text, p + 3) = "SP")
    THEN Parts(-1, -1, -1, 0)
  ELSE UnpackHeaders(text, LineEnd(text, p + 4) + 1,
                     DecimalValue(text, p, p + 3), -1)

unpack_http_response(text) ==
  LET p == Len(HttpPreamble) + 1 IN
  IF ~str_startswith(text, 1, HttpPreamble) THEN Parts(-1, -1, -1, 0)
  ELSE IF ~(isdigit(At(text, p)) /\ isdigit(At(text, p + 1)) /\ isdigit(At(text, p + 2))
             /\ At(text, p + 3) = "SP")
    THEN Parts(-1, -1, -1, 0)
  ELSE UnpackHeaders(text, LineEnd(text, p + 4) + 1,
                     DecimalValue(text, p, p + 3), -1)

\* a response as the peer composed it, and its text
ResponseText(r) == r.version \o r.status \o r.reason \o r.header \o r.blank \o r.body
\* what one read of the whole response r gives the handler of the headers
ResponseIO(r) ==
  LET text == ResponseText(r)
      parts == unpack_http_response(text)
  IN  IO(Len(text), TRUE, parts.ret, parts.code, parts.content_length,
         Len(text) - (parts.content_start - 1))

\* the response to the request of slot k comes in with one read:
\* rhizome_fetch_poll in state RXHTTPHEADERS
PollResponse(k, responses, outcomes) ==
  /\ Running
  /\ slots[k].alarm.watched
  /\ slots[k].state = RXHTTPHEADERS
  /\ \E r \in responses :
     \E importOk \in ImportFor(~IsNull(slots[k].manifest)),
        sched \in SchedFor(k, outcomes) :
       LET S == rhizome_fetch_poll(
                  Cur(Env(0, importOk, sched, TRUE, NoManifest)), k,
                  slots[k].alarm.events, ResponseIO(r))
       IN  /\ Len(ResponseText(r)) <= RequestBufferSize - slots[k].request_len - 1
           /\ Commit(S)
           /\ last' = Last("response", NoManifest, NoPeer, k, 0, r)
  /\ UNCHANGED now

\* the alarm of slot k times out while rhizome_fetch_poll is its function
PollTimeout(k, outcomes) ==
  /\ Running
  /\ slots[k].alarm.scheduled
  /\ slots[k].alarm.function = "poll"
  /\ slots[k].alarm.alarm <= now
  /\ \E importOk \in ImportFor(MayFindPayload(k)), sched \in SchedFor(k, outcomes) :
       LET S0 == unschedule(Cur(Env(0, importOk, sched, TRUE, NoManifest)), k)
           S == rhizome_fetch_poll(S0, k, {}, NoIO)
       IN  /\ Commit(S)
           /\ last' = Last("timeout", NoManifest, NoPeer, k, 0,
                           StreamFault(slots[k], {}, NoIO))
  /\ UNCHANGED now

\* the alarm of slot k fires while rhizome_fetch_mdp_slot_callback is its function
MdpAlarm(k, outcomes) ==
  /\ Running
  /\ slots[k].alarm.scheduled
  /\ slots[k].alarm.function = "mdp"
  /\ slots[k].alarm.alarm <= now
  /\ \E importOk \in ImportFor(MayFindPayload(k)), sched \in SchedFor(k, outcomes) :
       LET S0 == unschedule(Cur(Env(0, importOk, sched, TRUE, NoManifest)), k)
           S == rhizome_fetch_mdp_slot_callback(S0, k)
       IN  /\ Commit(S)
           /\ last' = Last("mdp", NoManifest, NoPeer, k, 0, "")
  /\ UNCHANGED now

\* a content datagram arrives that some slot takes: rhizome_received_content
\* (dg: the offsets, lengths and kinds that datagrams may carry, and whether
\* the write to the scratch file may fail)
ReceivedContent(dg, outcomes) ==
  /\ Running
  /\ \E bid \in Ids, offset \in dg.offsets, count \in dg.counts, type \in dg.types :
       LET k == ContentSlot(Cur(Env(0, TRUE, "ok", TRUE, NoManifest)), bid) IN
       /\ k # -1
       /\ slots[k].file_ofs = offset
       /\ \E importOk \in ImportFor(MayFindPayload(k) \/ type = "T"),
             sched \in SchedFor(k, outcomes),
             fwriteOk \in (IF dg.faults \/ ~slots[k].file THEN BOOLEAN ELSE { TRUE }) :
            LET S == rhizome_received_content(
                       Cur(Env(0, importOk, sched, fwriteOk, NoManifest)),
                       bid, offset, count, type)
            IN  /\ Commit(S)
                /\ last' = Last("content", NoManifest, NoPeer, k, 0, type)
  /\ UNCHANGED now

\* a content datagram arrives for a slot that is at another offset than the
\* datagram: rhizome_received_content, lines 1273-1277
ReceivedContentOutOfOrder(dg) ==
  /\ Running
  /\ \E bid \in Ids, offset \in dg.offsets, count \in dg.counts, type \in dg.types :
       LET S0 == Cur(Env(0, TRUE, "ok", TRUE, NoManifest))
           k == ContentSlot(S0, bid)
       IN
       /\ k # -1
       /\ slots[k].file_ofs # offset
       /\ Commit(rhizome_received_content(S0, bid, offset, count, type))
       /\ last' = Last("content", NoManifest, NoPeer, k, offset, "out of order")
  /\ UNCHANGED now

\* a manifest is asked for by prefix: rhizome_fetch_request_manifest_by_prefix
RequestManifestWith(peers, prefixes, lengths, outcomes) ==
  /\ Running
  /\ \E peer \in peers, prefix \in prefixes, len \in lengths, sched \in outcomes :
       LET S == rhizome_fetch_request_manifest_by_prefix(
                  Cur(Env(0, TRUE, sched, TRUE, NoManifest)), peer, prefix, len)
       IN  /\ Commit(S)
           /\ last' = Last("request_manifest", NoManifest, peer, -1, 0, S.ret)
  /\ UNCHANGED now

\* time passes, by step
AdvanceTimeWithin(step, ticks) ==
  /\ Running
  /\ now + step <= ticks * step
  /\ now' = now + step
  /\ UNCHANGED << queues, slots, sched_activate, store, files, ignored, released,
                  imported, fs, scratch, rx_time, events, fault, nextH, last >>

AdvanceTimeBy(step) == AdvanceTimeWithin(step, MaxTicks)

-----------------------------------------------------------------------------
(* Spec: the dispatcher.  Peers advertise manifests; the activation alarm   *)
(* starts fetches; a started fetch ends when its alarm fires (the HTTP idle *)
(* timeout closes the slot, the MDP callback asks again or gives up).       *)

TimeStep == 5001

\* advertised: two bundles in two versions, with small or huge payloads; one
\* may carry the other's payload; some are empty, some do not verify
Advertised ==
  { m \in Shapes(Ids, Versions, { 0, 9999, 10000000 }, Kinds) :
      \/ m.fileLength > 0 /\ m.valid /\ m.hash = m.id
      \/ m.fileLength = 9999 /\ m.valid /\ m.id = 2 /\ m.version = 1
      \/ m.fileLength = 0 /\ m.valid /\ m.id = 2 /\ m.hash = m.id
      \/ m.fileLength = 0 /\ ~m.valid /\ ~m.selfSigned
           /\ m.id = 2 /\ m.version = 2 /\ m.hash = m.id
      \/ m.fileLength = 9999 /\ ~m.valid /\ m.id = 2 /\ m.version = 2 /\ m.hash = m.id }

\* the ways of a bin that random() picks
Ways == { 0, IGNORED_BIN_SIZE - 1 }

Suggest == SuggestWith(Advertised, { HttpPeer }, Ways)
ActivateTick == ActivateWith(SchedOutcomes)
Timeout == \E k \in QueueNos : PollTimeout(k, SchedOutcomes)
Mdp == \E k \in QueueNos : MdpAlarm(k, SchedOutcomes)
AdvanceTime == AdvanceTimeBy(TimeStep)

Next ==
  \/ Suggest
  \/ ActivateTick
  \/ Timeout
  \/ Mdp
  \/ AdvanceTime

Spec == Init /\ [][Next]_vars

-----------------------------------------------------------------------------
(* SpecRoute: the dispatcher on payload lengths at the size thresholds *)

RouteSizes ==
  { 9999, 10000, 99999, 100000, 999999, 1000000, 9999999, 10000000, 10000001 }
RouteAdvertised == Shapes(Ids, { 1 }, RouteSizes, { << FALSE, TRUE >> })

SuggestRoute == SuggestWith(RouteAdvertised, { HttpPeer }, Ways)
ActivateRoute == ActivateWith({ "ok" })
AdvanceRoute == AdvanceTimeBy(TimeStep)

NextRoute ==
  \/ SuggestRoute
  \/ ActivateRoute
  \/ AdvanceRoute

SpecRoute == Init /\ [][NextRoute]_vars

-----------------------------------------------------------------------------
(* SpecIgnore: the ignore cache.  Manifests that do not verify are          *)
(* advertised, with others of the same ids that do; the clock reaches the   *)
(* expiry of an entry exactly.                                              *)

IgnoreStep == 30000
IgnoreAdvertised ==
  { m \in Shapes(Ids, { MaxVersion }, { 0, 9999 }, Kinds) :
      m.hash = m.id /\ (m.valid \/ ~m.selfSigned) }

SuggestIgnore == SuggestWith(IgnoreAdvertised, Peers, IgnoreWays)
AdvanceIgnore == AdvanceTimeBy(IgnoreStep)

NextIgnore ==
  \/ SuggestIgnore
  \/ AdvanceIgnore

SpecIgnore == Init /\ [][NextIgnore]_vars

-----------------------------------------------------------------------------
(* SpecHappy: stream fetches from a responder that answers every request     *)
(* with status 200, a Content-Length and exactly that many bytes of body,    *)
(* and then closes the stream.  No call fails.                               *)

HappyIO ==
  [writeChunk |-> 40, readChunk |-> 0, lengths |-> { 0, 4 }, reads |-> { 1, 4 },
   faults |-> FALSE, hangups |-> FALSE]
HappyAdvertised == Shapes(Ids, { 1 }, { 9999 }, { << FALSE, TRUE >> })

SuggestHappy == SuggestWith(HappyAdvertised, { HttpPeer }, { 0 })
ActivateHappy == ActivateWith({ "ok" })
PollHappy == \E k \in QueueNos : PollReady(k, {}, HappyIO, { "ok" })
MdpHappy == \E k \in QueueNos : MdpAlarm(k, { "ok" })
AdvanceHappy == AdvanceTimeBy(TimeStep)

NextHappy ==
  \/ SuggestHappy
  \/ ActivateHappy
  \/ PollHappy
  \/ MdpHappy
  \/ AdvanceHappy

SpecHappy == Init /\ [][NextHappy]_vars

-----------------------------------------------------------------------------
(* Properties *)

\* the manifests handed to the engine so far
Handed == 1 .. nextH
\* the engine holds manifest h in a queue, or in a slot that is not free
Queued(h) == \E q \in QueueNos : \E j \in 0 .. QSize(q) - 1 : queues[q][j].manifest.h = h
InSlot(h) == \E k \in QueueNos : slots[k].state # FREE /\ slots[k].manifest.h = h
Held(h) == Queued(h) \/ InSlot(h)

\* this step is a call of suggest(); its manifest is last'.m
SuggestStep == nextH' = nextH + 1 /\ last'.op = "suggest"

\* the candidates queued with bundle id
QueuedWithId(id) ==
  { c \in UNION { { queues[q][j] : j \in 0 .. QSize(q) - 1 } : q \in QueueNos } :
      ~IsNull(c.manifest) /\ c.manifest.id = id }
\* queue q has no empty position
QueueIsFull(q) == \A j \in 0 .. QSize(q) - 1 : ~IsNull(queues[q][j].manifest)
\* the queue of the lowest threshold above size s, the unbounded queue if none
\* (the thresholds ascend): as many queues are passed as thresholds are <= s
ExpectedQueue(s) == Cardinality({ i \in 0 .. NQUEUES - 2 : QThreshold(i) <= s })
\* the verification suggest() asks of m succeeds
Verifies(m) == IF m.fileLength = 0 THEN m.valid ELSE m.selfSigned \/ m.valid
\* nothing was ever put in the ignore cache, nothing ever stored
NothingIgnored == \A b \in DOMAIN ignored : \A w \in IgnoreWays : ignored[b][w] = EmptyIgnored
NothingStored == \A id \in Ids : store[id] = -1

\* C1: every manifest handed to suggest() is released exactly once, whichever
\* path it takes: never twice, and once as soon as the engine holds it in no
\* queue and in no slot.
C1_ReleasedExactlyOnce ==
  \A h \in Handed :
    /\ released[h] <= 1
    /\ ~Held(h) => released[h] = 1

\* C2: in every queue the used prefix is contiguous: if position i is empty
\* then every position j > i is empty.
C2_ContiguousPrefix ==
  \A q \in QueueNos : \A i, j \in 0 .. QSize(q) - 1 :
    i < j /\ IsNull(queues[q][i].manifest) => IsNull(queues[q][j].manifest)

\* one activation tick has started the first two manifests, both of queue 0
\* (their alarms were set at the same instant): when the first was unqueued
\* the second moved up to the head, where slot 1 found it
C2_ClosedUp ==
  /\ last.op = "activate"
  /\ slots[0].state # FREE /\ slots[0].manifest.h = 1
  /\ slots[1].state # FREE /\ slots[1].manifest.h = 2
  /\ slots[0].manifest.fileLength = 9999
  /\ slots[1].manifest.fileLength = 9999
  /\ slots[0].alarm.alarm = slots[1].alarm.alarm
  /\ \A q \in QueueNos : IsNull(queues[q][0].manifest)

\* C3: no two queued candidates, in the same queue or in different queues,
\* have the same manifest id.
C3_NoTwoQueuedShareId ==
  \A q1, q2 \in QueueNos : \A j1 \in 0 .. QSize(q1) - 1, j2 \in 0 .. QSize(q2) - 1 :
    /\ << q1, j1 >> # << q2, j2 >>
    /\ ~IsNull(queues[q1][j1].manifest)
    /\ ~IsNull(queues[q2][j2].manifest)
    => queues[q1][j1].manifest.id # queues[q2][j2].manifest.id

\* the first manifest was queued (nothing was stored or ignored before the
\* second came, and no time has passed) and the second, version 2 of the same
\* bundle, has just taken its place
C3_OlderReplaced ==
  /\ last.op = "suggest" /\ last.m.h = 2 /\ last.ret = 0 /\ last.m.version = 2
  /\ NothingIgnored /\ NothingStored /\ now = 0
  /\ released[1] = 1 /\ ~Queued(1)
  /\ Queued(2)

C5_QueueBySize ==
  \A q \in QueueNos : \A j \in 0 .. QSize(q) - 1 :
    LET m == queues[q][j].manifest IN
    ~IsNull(m) =>
      /\ q = ExpectedQueue(m.fileLength)
      /\ m.fileLength = 9999 => q = 0
      /\ m.fileLength = 10000 => q = 1
      /\ m.fileLength = 100000 => q = 2
      /\ m.fileLength = 10000001 => q = 4

\* suggest() has queued a payload of threshold length next to one a byte shorter
C5_AtTheThreshold ==
  /\ last.op = "suggest" /\ last.ret = 0 /\ last.m.fileLength = 10000
  /\ queues[1][0].manifest = last.m
  /\ queues[0][0].manifest.fileLength = 9999

\* m and n are the same manifest, handed over twice
SameManifest(m, n) == [m EXCEPT !.h = 0] = [n EXCEPT !.h = 0]

\* C6: if suggest(m, p) is immediately followed by suggest(m', p') of the same
\* manifest (the same id and version, whatever the peer), the second call leaves
\* every queue as it was and releases m'.
C6_RepeatedSuggest ==
  [][last.op = "suggest" /\ SuggestStep /\ SameManifest(last.m, last'.m) =>
      /\ queues' = queues
      /\ released'[last'.m.h] = 1
  ]_vars

\* C7: suggest() of a manifest with payload length 0 that passes the version
\* check and verification imports it at once and returns 0; no queue is
\* modified, no slot changes and the activation alarm is not armed.
C7_ImmediateImport ==
  [][SuggestStep =>
      LET m == last'.m IN
      m.fileLength = 0 /\ store[m.id] < m.version /\ m.valid =>
        /\ imported'[m.h] = 1
        /\ last'.ret = 0
        /\ UNCHANGED << queues, slots, sched_activate >>
  ]_vars

\* an empty payload has just been imported while another bundle was queued,
\* the activation alarm armed
C7_ImportedAtOnce ==
  /\ last.op = "suggest" /\ last.ret = 0
  /\ last.m.fileLength = 0 /\ last.m.valid
  /\ imported[last.m.h] = 1
  /\ store[last.m.id] = last.m.version
  /\ Queued(1)
  /\ sched_activate.scheduled

C9_IgnoredIsDropped ==
  [][SuggestStep =>
      LET m == last'.m IN
      rhizome_ignore_manifest_check(ignored, m.id, now) = 1 =>
        /\ released'[m.h] = 1
        /\ UNCHANGED << queues, store, imported >>
  ]_vars

\* the times asked about, after a remember: at it, a millisecond before the
\* expiry, at the expiry, after it
Probes == { 0, IGNORE_TIMEOUT - 1, IGNORE_TIMEOUT, IGNORE_TIMEOUT + 1 }
\* this step is a suggest() that remembers the id of its manifest
RememberStep ==
  /\ SuggestStep
  /\ last'.ret = -1
  /\ store[last'.m.id] < last'.m.version
\* the ways of its bin that hold id
WaysOf(ign, id) == { w \in IgnoreWays : ign[IgnoreBin(id)][w].bid = id }

\* C10: after remember(id, peer, ttl) at time t, and until the next remember,
\* check(id, now) is true for every now < t + ttl and false for every
\* now >= t + ttl; a second remember for the same id refreshes the entry
\* there is and makes no other.
C10_RememberThenCheck ==
  [][/\ RememberStep =>
          LET id == last'.m.id IN
          /\ \A p \in Probes :
               rhizome_ignore_manifest_check(ignored', id, now + p)
                 = IF p < IGNORE_TIMEOUT THEN 1 ELSE 0
          /\ WaysOf(ignored, id) # {} =>
               /\ WaysOf(ignored', id) = WaysOf(ignored, id)
               /\ Cardinality(WaysOf(ignored', id)) = 1
     /\ ~RememberStep => ignored' = ignored
  ]_vars

\* two manifests failed verification, the second at IgnoreStep; the cache holds
\* one entry, so both had the same id and the second remember refreshed the
\* entry of the first; the clock has since moved on and the id is still ignored
C10_Refreshed ==
  /\ last.op = "suggest" /\ last.ret = -1 /\ ~Verifies(last.m) /\ last.m.h = 2
  /\ NothingStored
  /\ released[1] = 1 /\ released[2] = 1
  /\ now = 2 * IgnoreStep
  /\ \A b \in DOMAIN ignored : \A w \in IgnoreWays :
       ignored[b][w] # EmptyIgnored =>
         /\ b = IgnoreBin(last.m.id)
         /\ WaysOf(ignored, last.m.id) = { w }
         /\ ignored[b][w].timeout = IgnoreStep + IGNORE_TIMEOUT
  /\ WaysOf(ignored, last.m.id) # {}
  /\ rhizome_ignore_manifest_check(ignored, last.m.id, now) = 1

-----------------------------------------------------------------------------
(* Fetches that fall back from the stream to datagrams, or begin with them *)

FallIO ==
  [writeChunk |-> 40, readChunk |-> 0, lengths |-> { 4 }, reads |-> { 2 },
   faults |-> TRUE, hangups |-> FALSE]
Datagrams ==
  [offsets |-> { 0, 2 }, counts |-> { 2 }, types |-> { "B", "T" }, faults |-> FALSE]
FallAdvertised == Shapes({ 1 }, { 1 }, { 9999 }, { << FALSE, TRUE >> })

SuggestFall == SuggestWith(FallAdvertised, { HttpPeer, MdpPeer }, { 0 })
ActivateFall == ActivateWith({ "ok", "noconnect" })
PollFall == \E k \in QueueNos : PollReady(k, {}, FallIO, { "ok" })
TimeoutFall == \E k \in QueueNos : PollTimeout(k, { "ok" })
MdpFall == \E k \in QueueNos : MdpAlarm(k, { "ok" })
ContentFall == ReceivedContent(Datagrams, { "ok" })
AdvanceFall == AdvanceTimeBy(TimeStep)

NextFall ==
  \/ SuggestFall
  \/ ActivateFall
  \/ PollFall
  \/ TimeoutFall
  \/ MdpFall
  \/ ContentFall
  \/ AdvanceFall

SpecFall == Init /\ [][NextFall]_vars

-----------------------------------------------------------------------------
(* Fetches of payloads and of manifests over a stream that may fail *)

FrameIO ==
  [writeChunk |-> 40, readChunk |-> 0, lengths |-> { 4 }, reads |-> { 2 },
   faults |-> TRUE, hangups |-> FALSE]
FrameAdvertised == Shapes({ 1 }, { 1 }, { 9999 }, { << FALSE, TRUE >> })
PrefixLength == 4

SuggestFrame == SuggestWith(FrameAdvertised, { HttpPeer }, { 0 })
ActivateFrame == ActivateWith({ "ok" })
\* a manifest is asked for while no fetch is under way
RequestFrame ==
  /\ \A k \in QueueNos : slots[k].state = FREE
  /\ RequestManifestWith({ HttpPeer }, { 1 }, { PrefixLength }, { "ok" })
PollFrame == \E k \in QueueNos : PollReady(k, {}, FrameIO, { "ok" })
MdpFrame == \E k \in QueueNos : MdpAlarm(k, { "ok" })
AdvanceFrame == AdvanceTimeBy(TimeStep)

NextFrame ==
  \/ SuggestFrame
  \/ ActivateFrame
  \/ RequestFrame
  \/ PollFrame
  \/ MdpFrame
  \/ AdvanceFrame

SpecFrame == Init /\ [][NextFrame]_vars

-----------------------------------------------------------------------------
(* Fetches left idle after they fell back to datagrams *)

\* a responder that answers well and may stop in the middle of the body
IdleIO ==
  [writeChunk |-> 0, readChunk |-> 0, lengths |-> { 4 }, reads |-> { 2 },
   faults |-> FALSE, hangups |-> FALSE]
BodyIdleIO == [IdleIO EXCEPT !.faults = TRUE]
IdleDatagrams ==
  [offsets |-> { 2 }, counts |-> { 2 }, types |-> { "B" }, faults |-> FALSE]

SuggestIdle == SuggestWith(FrameAdvertised, { HttpPeer }, { 0 })
ActivateIdle == ActivateWith({ "ok" })
RequestIdle ==
  /\ \A k \in QueueNos : slots[k].state = FREE
  /\ RequestManifestWith({ HttpPeer }, { 1 }, { PrefixLength }, { "ok" })
PollIdle ==
  \E k \in QueueNos :
    PollReady(k, {}, IF slots[k].state = RXFILE THEN BodyIdleIO ELSE IdleIO, { "ok" })
MdpIdle == \E k \in QueueNos : MdpAlarm(k, { "ok" })
ContentIdle == ReceivedContent(IdleDatagrams, { "ok" })
IdleTicks == 3
AdvanceIdle == AdvanceTimeWithin(TimeStep, IdleTicks)

NextIdle ==
  \/ SuggestIdle
  \/ ActivateIdle
  \/ RequestIdle
  \/ PollIdle
  \/ MdpIdle
  \/ ContentIdle
  \/ AdvanceIdle

SpecIdle == Init /\ [][NextIdle]_vars

-----------------------------------------------------------------------------
(* Slots *)

StreamStates == { CONNECTING, SENDINGHTTPREQUEST, RXHTTPHEADERS, RXFILE }

\* a handler ran in this step (time stands still while one runs)
HandlerStep == now' = now

EventsOf(evs, k) == SelectSeq(evs, LAMBDA e : e.k = k)
EventsOfType(evs, k, type) == SelectSeq(evs, LAMBDA e : e.k = k /\ e.type = type)

\* the states slot k is put in by a handler, in order, after the one it had
StatePath(st, evs, k) ==
  LET sets == SelectSeq(evs, LAMBDA e : e.k = k /\ e.type \in { "state", "close" })
  IN  << st >> \o [i \in 1 .. Len(sets) |-> sets[i].slot.state]

StreamOrder ==
  { << FREE, CONNECTING >>, << CONNECTING, SENDINGHTTPREQUEST >>,
    << SENDINGHTTPREQUEST, RXHTTPHEADERS >>, << RXHTTPHEADERS, RXFILE >>,
    << RXFILE, FREE >> }

(* C11: a stream fetch answered with status 200, Content-Length n and exactly *)
(* n bytes of body takes its slot through Connecting, SendingRequest,         *)
(* ReceivingHeaders and ReceivingBody in that order, each of them visited,    *)
(* and back to Free; import is invoked exactly once, with a scratch file of   *)
(* exactly the n bytes.  Stated of SpecHappy, where every responder answers   *)
(* so: each state a handler gives a slot is the successor of the one it had;  *)
(* no slot falls back; a slot is closed only on handing its file, of          *)
(* Content-Length bytes, to the importer; no manifest is imported twice.      *)
StreamPathIn(order, k) ==
  LET path == StatePath(slots[k].state, events', k)
      evs == EventsOf(events', k)
  IN  /\ \A i \in 1 .. Len(path) - 1 : << path[i], path[i + 1] >> \in order
      /\ \A i \in 1 .. Len(evs) :
           /\ evs[i].type # "switch"
           /\ evs[i].type = "close" =>
                /\ i > 1
                /\ evs[i - 1].type = "import"
                /\ evs[i - 1].n = evs[i - 1].slot.file_len
                /\ imported'[evs[i].was.manifest.h] = 1

EmptyBody(sl) == sl.state = RXFILE /\ sl.file_len = 0

FellBack(evs) == SelectSeq(evs, LAMBDA e : e.type = "switch")

(* C12: every fallback edge leaves the slot in ReceivingBodyDatagram: the     *)
(* slot a handler switches to datagrams has state RXFILEMDP when the switch   *)
(* is made.                                                                   *)
C12_FallbackEntersDatagramState ==
  [][HandlerStep =>
       \A i \in 1 .. Len(FellBack(events')) :
         FellBack(events')[i].slot.state = RXFILEMDP]_vars

\* the request a handler sent for slot k right after event i of the slot
RequestAfter(evs, k, i) ==
  LET mine == EventsOf(evs, k)
  IN  IF i < Len(mine) THEN mine[i + 1] ELSE Event("none", k, EmptySlot, EmptySlot, 0, FALSE, 0)

\* the fall back e kept what the slot held
KeepsFetch(e) ==
  /\ e.slot.manifest = e.was.manifest
  /\ e.slot.filename = e.was.filename
  /\ e.slot.file = e.was.file
  /\ e.there
  /\ e.slot.file_ofs = e.was.file_ofs

\* the fall backs from a stream state a handler made for slot k
StreamFallbacks(evs, k) ==
  { i \in 1 .. Len(EventsOf(evs, k)) :
      /\ EventsOf(evs, k)[i].type = "switch"
      /\ EventsOf(evs, k)[i].was.state \in StreamStates }

(* C13: a fallback from any stream state keeps the slot's manifest and        *)
(* scratch file, leaves payload_offset unchanged, sets rx_window_start to     *)
(* that payload_offset, and for a payload fetch is followed by a first        *)
(* block-request that carries that rx_window_start.                           *)
C13_FallbackFrame ==
  [][HandlerStep =>
       \A k \in QueueNos : \A i \in StreamFallbacks(events', k) :
         LET e == EventsOf(events', k)[i] IN
         /\ KeepsFetch(e)
         /\ e.slot.mdpRXWindowStart = e.was.file_ofs
         /\ e.was.bidP # 0 =>
              /\ RequestAfter(events', k, i).type = "blocks"
              /\ RequestAfter(events', k, i).n = e.was.file_ofs]_vars

(* C13, amended: a fallback from any stream state keeps the slot's manifest   *)
(* and scratch file and leaves payload_offset unchanged; for a payload fetch  *)
(* it sets rx_window_start to that payload_offset and is followed by a first  *)
(* block-request that carries that rx_window_start.                           *)
C13_FallbackFrameAmended ==
  [][HandlerStep =>
       \A k \in QueueNos : \A i \in StreamFallbacks(events', k) :
         LET e == EventsOf(events', k)[i] IN
         /\ KeepsFetch(e)
         /\ e.was.bidP # 0 =>
              /\ e.slot.mdpRXWindowStart = e.was.file_ofs
              /\ RequestAfter(events', k, i).type = "blocks"
              /\ RequestAfter(events', k, i).n = e.was.file_ofs]_vars

\* a payload fetch that had taken part of the body from the stream has just
\* fallen back and asked for the blocks that follow
C13_Witness ==
  \E i \in 1 .. Len(events) - 1 :
    /\ events[i].type = "switch"
    /\ events[i].was.state = RXFILE
    /\ events[i].was.bidP # 0
    /\ events[i].was.file_ofs > 0
    /\ events[i + 1].type = "blocks"
    /\ events[i + 1].n = events[i].was.file_ofs

\* the slot fetches by datagrams
InDatagramMode(sl) == sl.state # FREE /\ sl.alarm.function = "mdp"

\* the events of slot k that follow its event i in a handler
EventsAfter(evs, k, i) == SubSeq(EventsOf(evs, k), i + 1, Len(EventsOf(evs, k)))

\* after taking the datagram e, which ends the payload, the slot handed a file
\* of as many bytes as the payload has to the importer, once, and was closed
CompletedBy(e, after, imports) ==
  /\ Len(after) >= 2
  /\ after[1].type = "import"
  /\ after[1].slot.file_len = e.n
  /\ after[1].n = e.n
  /\ imports[e.was.manifest.h] = 1
  /\ after[2].type = "close"
  /\ after[2].slot.state = FREE

(* C14: in datagram mode, in-order non-terminal blocks followed by a terminal *)
(* block of type 'T' at offset o with length n end with payload_len = o + n,  *)
(* the scratch file holding o + n bytes, import invoked exactly once and the  *)
(* slot Free; before the 'T' block arrives the fetch is never treated as      *)
(* complete.                                                                  *)
C14_DatagramCompletion ==
  [][HandlerStep =>
       \A k \in QueueNos : \A i \in 1 .. Len(EventsOf(events', k)) :
         LET e == EventsOf(events', k)[i] IN
         (e.type = "datagram" /\ InDatagramMode(e.was) /\ e.was.bidP # 0) =>
           IF e.there
             THEN CompletedBy(e, EventsAfter(events', k, i), imported')
             ELSE \A j \in 1 .. Len(EventsAfter(events', k, i)) :
                    EventsAfter(events', k, i)[j].type # "import"]_vars

\* no handler closed slot k in this step
StillOpen(evs, k) == Len(EventsOfType(evs, k, "close")) = 0

(* C15: payload_offset never decreases between a slot's activation and its   *)
(* close, and at the moment of import payload_offset equals payload_len.      *)
C15_OffsetMonotone ==
  [][HandlerStep =>
       \A k \in QueueNos :
         /\ (slots[k].state # FREE /\ StillOpen(events', k)) =>
              slots'[k].file_ofs >= slots[k].file_ofs
         /\ \A i \in 1 .. Len(EventsOfType(events', k, "import")) :
              LET e == EventsOfType(events', k, "import")[i] IN
              /\ e.slot.file_ofs = e.slot.file_len
              /\ e.slot.file_ofs >= e.was.file_ofs]_vars

\* a slot that held part of the payload has taken the rest and handed the
\* file to the importer
C15_Witness ==
  \E i \in 1 .. Len(events) :
    /\ events[i].type = "import"
    /\ events[i].was.file_ofs > 0
    /\ events[i].slot.file_ofs > events[i].was.file_ofs
    /\ events[i].slot.file_ofs = events[i].slot.file_len

\* the slots that hold a payload fetch
Fetching == { k \in QueueNos : slots[k].state # FREE /\ ~IsNull(slots[k].manifest) }

(* C16: no two non-Free slots ever hold payload fetches for the same manifest *)
(* id, and no two ever fetch the same payload hash: activating a candidate    *)
(* whose id or payload hash is in flight in any slot starts no second fetch.  *)
C16_NoDuplicateFetch ==
  \A i \in Fetching : \A j \in Fetching \ { i } :
    /\ slots[i].manifest.id # slots[j].manifest.id
    /\ slots[i].manifest.hash # slots[j].manifest.hash

\* the activation just run left a candidate in the queue of a Free slot,
\* because another slot is fetching an older version of the same bundle
C16_Witness ==
  /\ last.op = "activate"
  /\ \E q \in QueueNos : \E i \in 0 .. QSize(q) - 1 :
       /\ ~IsNull(queues[q][i].manifest)
       /\ slots[q].state = FREE
       /\ \E k \in Fetching \ { q } :
            /\ slots[k].manifest.id = queues[q][i].manifest.id
            /\ slots[k].manifest.version < queues[q][i].manifest.version

\* the closes of a slot in use that a handler made
Closes(evs) == SelectSeq(evs, LAMBDA e : e.type = "close" /\ e.was.state # FREE)

(* C17: whenever a non-Free slot is closed, afterwards the slot is Free, has  *)
(* no pending alarm, watches no descriptor, its scratch file handle is        *)
(* closed, its scratch path is unlinked and its manifest has been released,   *)
(* however the slot was started, also for slots that entered datagram mode at *)
(* activation.                                                                *)
C17_CloseReleasesEverything ==
  [][HandlerStep =>
       \A i \in 1 .. Len(Closes(events')) :
         LET e == Closes(events')[i] IN
         /\ e.slot.state = FREE
         /\ ~e.slot.alarm.scheduled
         /\ ~e.slot.alarm.watched
         /\ e.slot.alarm.fd = -1
         /\ ~e.slot.file
         /\ e.n = 0
         /\ ~e.there
         /\ IsNull(e.slot.manifest)
         /\ ~IsNull(e.was.manifest) => e.rel = 1]_vars

(* C18: closing a slot is idempotent: closing a slot that is already Free is  *)
(* permitted and changes nothing, and in particular does not fail; so the     *)
(* process is never stopped by a close of a Free slot.                        *)
C18_CloseIdempotent == fault # "assert state != FREE"

\* the idle time outs of datagram fetches that a handler found
IdleCloses(evs) == SelectSeq(evs, LAMBDA e : e.type = "idle")

\* the time slot k has taken no datagram for, since it turned to datagrams
IdleFor(k) == now - rx_time[k]

(* C19: in datagram mode the idle timeout is measured from the last absorbed  *)
(* datagram, 5000 ms for a payload fetch and 2000 ms for a manifest fetch,    *)
(* and each absorbed datagram restarts the idle period: a slot is closed as   *)
(* idle only when it took no datagram for that long, and the alarm of a slot  *)
(* that took none for longer closes it.                                       *)
C19_IdleFromLastDatagram ==
  [][HandlerStep =>
       /\ \A i \in 1 .. Len(IdleCloses(events')) :
            LET e == IdleCloses(events')[i] IN
            /\ e.was.mdpIdleTimeout =
                 (IF e.was.bidP # 0 THEN MDP_FILE_IDLE_TIMEOUT
                                   ELSE MDP_MANIFEST_IDLE_TIMEOUT)
            /\ IdleFor(e.k) >= e.was.mdpIdleTimeout
       /\ \A k \in QueueNos :
            (last'.op = "mdp" /\ last'.k = k /\ IdleFor(k) > slots[k].mdpIdleTimeout) =>
              /\ Len(EventsOfType(events', k, "idle")) = 1
              /\ Len(EventsOfType(events', k, "close")) = 1]_vars

\* a payload fetch that took a datagram after it had turned to datagrams has
\* just been closed as idle
C19_Witness ==
  \E i \in 1 .. Len(events) :
    /\ events[i].type = "idle"
    /\ events[i].was.bidP # 0
    /\ rx_time[events[i].k] > events[i].was.mdpLastRX
    /\ now - rx_time[events[i].k] >= MDP_FILE_IDLE_TIMEOUT

\* a manifest fetch that had turned to datagrams has just been closed as idle
C19_ManifestIdle ==
  \E i \in 1 .. Len(events) :
    /\ events[i].type = "idle"
    /\ events[i].was.bidP = 0
    /\ events[i].was.mdpIdleTimeout = MDP_MANIFEST_IDLE_TIMEOUT

(* C20: every non-Free slot has exactly one pending alarm and every Free slot *)
(* has none; each re-arm cancels the alarm set before, so the alarms set and  *)
(* not yet cancelled or run never count more than one.                        *)
C20_OneAlarmPerSlot ==
  \A k \in QueueNos :
    IF slots[k].state # FREE
      THEN slots[k].alarm.scheduled /\ slots[k].alarm.armed = 1
      ELSE ~slots[k].alarm.scheduled /\ slots[k].alarm.armed = 0

\* a slot receiving a body has just re-armed its alarm after a read
C20_Witness ==
  /\ last.op = "poll"
  /\ slots[last.k].state = RXFILE
  /\ slots[last.k].file_ofs > 0
  /\ slots[last.k].alarm.scheduled
  /\ slots[last.k].alarm.alarm = now + RHIZOME_IDLE_TIMEOUT
  /\ slots[last.k].alarm.function = "poll"

-----------------------------------------------------------------------------
(* The dispatcher *)

\* manifest h is a candidate of the queues qs
QueuedIn(qs, h) ==
  \E q \in QueueNos : \E j \in 0 .. QSize(q) - 1 : qs[q][j].manifest.h = h

\* C21: there is one activation alarm.  A call of suggest() that finds it
\* pending leaves it as it is, neither armed again nor put off; a call that
\* finds none pending arms it, at now + the activation delay, exactly when it
\* has queued its manifest; and no call of suggest() starts a fetch: every
\* slot is after the call as it was before.
C21_ActivationAlarm ==
  [][SuggestStep =>
       /\ sched_activate.scheduled => sched_activate' = sched_activate
       /\ ~sched_activate.scheduled =>
            /\ sched_activate'.scheduled <=> QueuedIn(queues', last'.m.h)
            /\ sched_activate'.scheduled =>
                 sched_activate'.alarm = now + FETCH_DELAY_MS
       /\ slots' = slots]_vars

\* a manifest was queued while the alarm armed by an earlier call was pending
C21_Witness ==
  /\ last.op = "suggest"
  /\ Queued(last.m.h)
  /\ sched_activate.scheduled
  /\ sched_activate.alarm < now

-----------------------------------------------------------------------------
(* Manifests asked for by prefix, any number at a time *)

Prefixes == { 1 }

SuggestPrefix == SuggestWith(FrameAdvertised, { HttpPeer }, { 0 })
ActivatePrefix == ActivateWith({ "ok" })
RequestPrefix ==
  RequestManifestWith({ HttpPeer }, Prefixes, { PrefixLength }, SchedOutcomes)
TimeoutPrefix == \E k \in QueueNos : PollTimeout(k, { "ok" })
PrefixTicks == 1
AdvancePrefix == AdvanceTimeWithin(TimeStep, PrefixTicks)

NextPrefix ==
  \/ SuggestPrefix
  \/ ActivatePrefix
  \/ RequestPrefix
  \/ TimeoutPrefix
  \/ AdvancePrefix

SpecPrefix == Init /\ [][NextPrefix]_vars

\* C22: the slots that are not free have scratch paths distinct one from
\* another, whether they fetch payloads (payload.<id>) or manifests by prefix
\* (manifest.<prefix>).
C22_ScratchPathsDistinct ==
  \A j, k \in QueueNos :
    j # k /\ slots[j].state # FREE /\ slots[k].state # FREE =>
      slots[j].filename # slots[k].filename

\* this step is a call of rhizome_fetch_request_manifest_by_prefix; its
\* result is last'.res
RequestStep == HandlerStep /\ last'.op = "request_manifest"
\* the free slots whose queue takes payloads larger than any manifest
ManifestSlots ==
  { k \in QueueNos :
      /\ QThreshold(k) < 0 \/ QThreshold(k) > MAX_MANIFEST_BYTES
      /\ slots[k].state = FREE }
FirstOf(ks) == CHOOSE k \in ks : \A j \in ks : k <= j
OtherSlotsKept(k) == \A j \in QueueNos \ { k } : slots'[j] = slots[j]

\* C23: a request for a manifest by prefix returns SlotBusy, with every slot
\* and every queue as it was, exactly when no slot whose queue's threshold is
\* above the largest manifest is free; otherwise the first such free slot in
\* ascending order of threshold starts the fetch, is no longer free and has
\* no manifest attached, and the request returns Started.
C23_RequestManifest ==
  [][RequestStep =>
       IF ManifestSlots = {}
         THEN last'.res = SLOTBUSY /\ slots' = slots /\ queues' = queues
         ELSE /\ last'.res = STARTED
              /\ slots'[FirstOf(ManifestSlots)].state # FREE
              /\ IsNull(slots'[FirstOf(ManifestSlots)].manifest)
              /\ OtherSlotsKept(FirstOf(ManifestSlots))
              /\ queues' = queues]_vars

\* C23, amended: as above, but the request that finds such a free slot and
\* cannot create the scratch file returns an error and leaves the slot free;
\* it returns Started, with the slot no longer free, in every other case.
C23_RequestManifestAmended ==
  [][RequestStep =>
       IF ManifestSlots = {}
         THEN last'.res = SLOTBUSY /\ slots' = slots /\ queues' = queues
         ELSE /\ last'.res \in { STARTED, FETCHERROR }
              /\ last'.res = FETCHERROR <=> fs' = fs /\ scratch' = scratch
              /\ last'.res = FETCHERROR <=>
                    slots'[FirstOf(ManifestSlots)].state = FREE
              /\ IsNull(slots'[FirstOf(ManifestSlots)].manifest)
              /\ OtherSlotsKept(FirstOf(ManifestSlots))
              /\ queues' = queues]_vars

\* a request started in slot 1 because slot 0 was fetching a payload
C23_Witness ==
  /\ last.op = "request_manifest"
  /\ last.res = STARTED
  /\ slots[0].state # FREE /\ ~IsNull(slots[0].manifest)
  /\ \E i \in 1 .. Len(events) :
        events[i].type = "state" /\ events[i].k = 1 /\ events[i].was.state = FREE

-----------------------------------------------------------------------------
(* The activation tick *)

\* this step is a tick of the activation alarm
ActivateStep == HandlerStep /\ last'.op = "activate"
\* the slots on which the handler called rhizome_start_next_queued_fetch, in
\* the order of the calls
RECURSIVE StartOrder(_)
StartOrder(evs) ==
  IF evs = << >> THEN << >>
  ELSE IF Head(evs).type = "start_next"
    THEN << Head(evs).k >> \o StartOrder(Tail(evs))
    ELSE StartOrder(Tail(evs))
Offers(evs, res) == { i \in 1 .. Len(evs) : evs[i].type = "offer" /\ evs[i].res = res }
\* every slot is free and the only candidate queued is in queue 0
LoneSmallCandidate ==
  /\ \A k \in QueueNos : slots[k].state = FREE
  /\ ~IsNull(queues[0][0].manifest) /\ IsNull(queues[0][1].manifest)
  /\ \A q \in QueueNos \ { 0 } : IsNull(queues[q][0].manifest)

\* C24: the tick calls start_next on the slots from the slot of the queue with
\* the largest threshold down to the smallest; so when every slot is free and
\* the only candidate, in queue 0, can be started, it is started in the slot
\* of the largest queue.
C24_TickOrder ==
  [][ActivateStep /\ fault' = "none" =>
       /\ StartOrder(events') = [i \in 1 .. NQUEUES |-> NQUEUES - i]
       /\ LoneSmallCandidate /\ Offers(events', STARTED) # {} =>
            slots'[NQUEUES - 1].manifest = queues[0][0].manifest]_vars

\* C24, amended: the tick calls start_next on the slots from the slot of the
\* queue with the smallest threshold up to the largest; so when every slot is
\* free and the only candidate, in queue 0, can be started, it is started in
\* the slot of queue 0.
C24_TickOrderAmended ==
  [][ActivateStep /\ fault' = "none" =>
       /\ StartOrder(events') = [i \in 1 .. NQUEUES |-> i - 1]
       /\ LoneSmallCandidate /\ Offers(events', STARTED) # {} =>
            /\ slots'[0].state # FREE
            /\ slots'[0].manifest = queues[0][0].manifest
            /\ \A k \in QueueNos \ { 0 } : slots'[k].state = FREE]_vars

\* a tick found every slot free and started two candidates of queue 0, the
\* first in slot 0 and the next in slot 1
C24_Witness ==
  /\ last.op = "activate"
  /\ \A i \in 1 .. Len(events) :
        events[i].type = "start_next" => events[i].was.state = FREE
  /\ \E i, j \in Offers(events, STARTED) :
        /\ i < j
        /\ events[i].k = 0 /\ events[i].q = 0
        /\ events[j].k = 1 /\ events[j].q = 0

-----------------------------------------------------------------------------
(* Candidates offered to the slots while fetches start, run and complete *)

\* a responder that answers at once with the whole payload
OfferIO ==
  [writeChunk |-> 0, readChunk |-> 0, lengths |-> { 4 }, reads |-> { 4 },
   faults |-> FALSE, hangups |-> FALSE]
OfferAdvertised == Shapes(Ids, Versions, { 9999 }, { << FALSE, TRUE >> })

SuggestOffer == SuggestWith(OfferAdvertised, { HttpPeer }, { 0 })
ActivateOffer == ActivateWith({ "ok" })
PollOffer == \E k \in QueueNos : PollReady(k, {}, OfferIO, { "ok" })
AdvanceOffer == AdvanceTimeBy(TimeStep)

NextOffer ==
  \/ SuggestOffer
  \/ ActivateOffer
  \/ PollOffer
  \/ AdvanceOffer

SpecOffer == Init /\ [][NextOffer]_vars

-----------------------------------------------------------------------------
(* start_next: what becomes of the candidate offered *)

\* the candidates of a queue, in order
Cands(a) ==
  SelectSeq([j \in 1 .. Cardinality(DOMAIN a) |-> a[j - 1]],
            LAMBDA c : ~IsNull(c.manifest))
RemoveAt(seq, i) == SubSeq(seq, 1, i - 1) \o SubSeq(seq, i + 1, Len(seq))
\* of the queues of an offer, only queue q changed: it lost its candidate i
OnlyRemoved(e) ==
  /\ Cands(e.after[e.q]) = RemoveAt(Cands(e.before[e.q]), e.i + 1)
  /\ \A q \in QueueNos \ { e.q } : e.after[q] = e.before[q]
\* events x and y > x belong to one call of start_next
SameCall(evs, x, y) ==
  x < y /\ \A z \in x + 1 .. y : evs[z].type # "start_next"
LaterOffers(evs, x) ==
  { y \in x + 1 .. Len(evs) : evs[y].type = "offer" /\ SameCall(evs, x, y) }
\* the scan goes on after offer x at entry i of its queue, or else at the head
\* of the next queue below that holds a candidate
HasCandidate(qs, q, i) == i < QSize(q) /\ ~IsNull(qs[q][i].manifest)
GoesOn(evs, x, i) ==
  LET e == evs[x]
      below == { q \in 0 .. e.q - 1 : HasCandidate(e.after, q, 0) }
  IN  IF HasCandidate(e.after, e.q, i)
        THEN \E y \in LaterOffers(evs, x) :
               /\ evs[y].q = e.q /\ evs[y].i = i /\ evs[y].k = e.k
               /\ \A z \in LaterOffers(evs, x) : y <= z
      ELSE IF below # {}
        THEN \E y \in LaterOffers(evs, x) :
               /\ evs[y].q = CHOOSE q \in below : \A p \in below : p <= q
               /\ evs[y].i = 0 /\ evs[y].k = e.k
               /\ \A z \in LaterOffers(evs, x) : y <= z
      ELSE LaterOffers(evs, x) = {}
Discarding == { IMPORTED, SUPERSEDED, SAMEBUNDLE, SAMEPAYLOAD, NEWERBUNDLE }

\* C26: in start_next, a candidate found OlderBundle stays where it is in its
\* queue, unreleased, and the scan goes on with the next candidate; a candidate
\* found Imported, Superseded, SameBundle, SamePayload or NewerBundle is taken
\* out of its queue, its manifest released, and the scan goes on; SlotBusy
\* ends the scan with every queue as it was.
C26_CandidateOutcomes ==
  fault = "none" =>
    \A x \in 1 .. Len(events) :
      events[x].type = "offer" =>
        /\ events[x].res = OLDERBUNDLE =>
              /\ events[x].after = events[x].before
              /\ events[x].rel = events[x].n
              /\ GoesOn(events, x, events[x].i + 1)
        /\ events[x].res \in Discarding =>
              /\ OnlyRemoved(events[x])
              /\ events[x].rel = events[x].n + 1
              /\ GoesOn(events, x, events[x].i)
        /\ events[x].res = SLOTBUSY =>
              /\ events[x].after = events[x].before
              /\ events[x].rel = events[x].n
              /\ LaterOffers(events, x) = {}

\* a scan kept back a candidate as OlderBundle, went on to the next candidate
\* of the queue and discarded that one
C26_Witness ==
  /\ fault = "none"
  /\ \E x \in Offers(events, OLDERBUNDLE) : \E y \in LaterOffers(events, x) :
        /\ events[y].res \in Discarding
        /\ events[y].q = events[x].q /\ events[y].i = events[x].i + 1

\* C27: when a candidate is Started, it alone leaves its queue, the candidates
\* that remain keeping their order; its manifest is not released but is the
\* manifest of the slot, which is no longer free; and that call of start_next
\* offers the slot no further candidate.
C27_Promotion ==
  \A x \in Offers(events, STARTED) :
    /\ OnlyRemoved(events[x])
    /\ events[x].rel = 0
    /\ events[x].was.state = FREE
    /\ events[x].slot.state # FREE
    /\ events[x].slot.manifest = events[x].before[events[x].q][events[x].i].manifest
    /\ LaterOffers(events, x) = {}

\* a candidate was started from behind another that was kept back, which
\* remains in the queue
C27_Witness ==
  \E x \in Offers(events, STARTED) :
    /\ events[x].i >= 1
    /\ Len(Cands(events[x].after[events[x].q])) >= 1
    /\ events[x].q < events[x].k

\* C28: start_next offers slot k only candidates of queue k and then of the
\* queues below it, downwards; hence a slot that holds a payload fetch holds
\* one whose payload is shorter than the size threshold of the slot's queue,
\* unless that queue has no threshold.
C28_SlotFitsPayload ==
  /\ \A x \in 1 .. Len(events) :
        events[x].type = "offer" =>
          /\ events[x].q <= events[x].k
          /\ \A y \in LaterOffers(events, x) : events[y].q <= events[x].q
  /\ \A k \in QueueNos :
        slots[k].state # FREE /\ ~IsNull(slots[k].manifest) =>
          \/ QThreshold(k) < 0
          \/ slots[k].manifest.fileLength < QThreshold(k)

\* slot 1 took a candidate of queue 0 while slot 0 was fetching another
C28_Witness ==
  /\ slots[0].state # FREE /\ slots[1].state # FREE
  /\ ~IsNull(slots[1].manifest)
  /\ slots[1].manifest.fileLength < QThreshold(0)
  /\ \E x \in Offers(events, STARTED) : events[x].k = 1 /\ events[x].q = 0

\* some queue holds a candidate
SomeQueued == \E q \in QueueNos : ~IsNull(queues[q][0].manifest)

\* C29: no candidate is left stranded: between handlers, when some queue holds
\* a candidate, some slot is not free or the activation alarm is scheduled
\* (so a candidate kept back as OlderBundle is offered again when the fetch
\* of the older version ends, whichever slot ran it).
C29_NoStrandedCandidate ==
  fault = "none" /\ SomeQueued =>
    \/ \E k \in QueueNos : slots[k].state # FREE
    \/ sched_activate.scheduled

\* C30: the activation of a payload candidate never reads the manifest of a
\* slot that has none (a slot fetching a manifest by prefix), and so ends
\* with one of the results of rhizome_fetch.
C30_ActivationReadsNoNullManifest == fault # "null manifest read"

-----------------------------------------------------------------------------
(* Stream faults *)

\* a responder that may fail in every way, and a socket that may hang up
FaultIO ==
  [writeChunk |-> 40, readChunk |-> 0, lengths |-> { 4 }, reads |-> { 2 },
   faults |-> TRUE, hangups |-> TRUE]

SuggestFault == SuggestWith(FallAdvertised, { HttpPeer }, { 0 })
ActivateFault == ActivateWith({ "ok", "noconnect" })
PollFault == \E k \in QueueNos : PollReady(k, {}, FaultIO, { "ok" })
TimeoutFault == \E k \in QueueNos : PollTimeout(k, { "ok" })
MdpFault == \E k \in QueueNos : MdpAlarm(k, { "ok" })
AdvanceFault == AdvanceTimeBy(TimeStep)

NextFault ==
  \/ SuggestFault
  \/ ActivateFault
  \/ PollFault
  \/ TimeoutFault
  \/ MdpFault
  \/ AdvanceFault

SpecFault == Init /\ [][NextFault]_vars

\* this step is rhizome_fetch_poll run for a slot in a stream state, and
\* last'.res the fault reported to it
StreamPollStep ==
  /\ HandlerStep
  /\ last'.op \in { "poll", "timeout" }
  /\ slots[last'.k].state \in StreamStates
Faults ==
  { "write error", "end of headers", "end of body", "idle timeout", "hang-up",
    "malformed", "no length", "status" }
\* the faults that the handler answers by closing the slot, and the one that
\* it lets pass
ClosingFaults == { "idle timeout", "hang-up" }
\* the handler moved slot k to the datagram transport, with what it held
MovedToDatagrams(evs, k) ==
  /\ Len(EventsOfType(evs, k, "switch")) = 1
  /\ KeepsFetch(EventsOfType(evs, k, "switch")[1])
  /\ EventsOfType(evs, k, "close") = << >>
\* a fetch whose connect failed was started in the datagram transport
ConnectFailed(e) == e.slot.peer.ip /\ e.slot.alarm.function = "mdp"
StartedOnDatagrams(evs) ==
  \A x \in Offers(evs, STARTED) :
    ConnectFailed(evs[x]) =>
      /\ evs[x].slot.state # FREE
      /\ evs[x].slot.manifest.h = evs[x].h
      /\ Len(EventsOfType(evs, evs[x].k, "switch")) = 1
      /\ EventsOfType(evs, evs[x].k, "close") = << >>

\* C25: every transient fault of the stream of a slot (connect failure, write
\* error, a read returning zero in ReceivingHeaders or ReceivingBody, idle
\* timeout, hang-up or error of the socket, malformed response, missing
\* Content-Length, status other than 200) moves the slot to the datagram
\* transport with its manifest and payload_offset kept; none closes it.
C25_FaultsFallBack ==
  [][/\ StreamPollStep /\ last'.res \in Faults =>
          MovedToDatagrams(events', last'.k)
     /\ HandlerStep => StartedOnDatagrams(events')]_vars

\* C25, amended: a connect failure, a write error, a read returning zero in
\* ReceivingBody, a malformed response, a missing Content-Length and a status
\* other than 200 move the slot to the datagram transport with its manifest
\* and payload_offset kept, and do not close it; the idle timeout, and a
\* hang-up or error of the socket reported without readiness to read or
\* write, close the slot to Free; a read returning zero in ReceivingHeaders
\* never moves the slot to the datagram transport: the slot stays in
\* ReceivingHeaders, or is closed when a hang-up is reported with the read.
C25_FaultsFallBackAmended ==
  [][/\ StreamPollStep /\ last'.res \in Faults \ (ClosingFaults \cup { "end of headers" }) =>
          MovedToDatagrams(events', last'.k)
     /\ StreamPollStep /\ last'.res \in ClosingFaults =>
          /\ EventsOfType(events', last'.k, "switch") = << >>
          /\ Len(EventsOfType(events', last'.k, "close")) = 1
          /\ EventsOfType(events', last'.k, "close")[1].slot.state = FREE
     /\ StreamPollStep /\ last'.res = "end of headers" =>
          /\ EventsOfType(events', last'.k, "switch") = << >>
          /\ \/ slots'[last'.k] = slots[last'.k]
             \/ Len(EventsOfType(events', last'.k, "close")) = 1
     /\ HandlerStep => StartedOnDatagrams(events')]_vars

\* a response without Content-Length made a slot fall back, which the slot
\* survived with its manifest
C25_Witness ==
  /\ last.op = "poll" /\ last.res = "no length"
  /\ slots[last.k].state # FREE
  /\ ~IsNull(slots[last.k].manifest)
  /\ slots[last.k].alarm.function = "mdp"

-----------------------------------------------------------------------------
(* The scratch file and the transfer state of a slot *)

\* C31: every slot that is not free holds an open handle on its scratch file,
\* to which the bytes received are written; so does a slot that entered
\* datagram mode at activation, because its peer has no stream address or
\* because the connect failed.
C31_OpenScratchHandle ==
  \A k \in QueueNos :
    slots[k].state # FREE => slots[k].file

\* the block requests sent for slot k while the fetch of offer x was started
StartRequests(evs, x) ==
  { y \in 1 .. x - 1 :
      /\ evs[y].type = "blocks" /\ evs[y].k = evs[x].k
      /\ SameCall(evs, y, x) }
\* offer x started the fetch that its slot still runs when the handler ends
StillRuns(evs, x) ==
  \A y \in x + 1 .. Len(evs) :
    evs[y].k = evs[x].k => evs[y].type \notin { "close", "offer" }

\* C32: nothing of the transfer state of the fetch a slot ran before is left
\* in its next fetch: a slot that is activated has payload_offset 0, and the
\* first block request of the fetch carries the rx_window_start 0 of a fetch
\* that has received nothing, when the slot starts in datagram mode and when
\* the fetch is activated within the handling of the datagram that completed
\* the fetch before.
C32_NoStaleTransferState ==
  \A x \in Offers(events, STARTED) :
    /\ events[x].slot.file_ofs = 0
    /\ \A y \in StartRequests(events, x) : events[y].n = 0
    /\ fault = "none" /\ StillRuns(events, x) =>
          /\ slots[events[x].k].file_ofs = 0
          /\ slots[events[x].k].alarm.function = "mdp" =>
                slots[events[x].k].mdpRXWindowStart = 0

(* What a refused suggestion leaves in the queues *)
\* the handles of the manifests queued in qs
QueuedHandles(qs) ==
  UNION { { qs[q][j].manifest.h :
              j \in { i \in 0 .. QSize(q) - 1 : ~IsNull(qs[q][i].manifest) } } :
          q \in QueueNos }

\* C33: a suggest() that ends with QueueFull has removed no candidate from any
\* queue, also when an older version of the suggested bundle was queued in
\* another queue than the full queue the suggestion is destined for.
C33_QueueFullRemovesNone ==
  [][SuggestStep /\ last'.ret = 1 =>
       QueuedHandles(queues) \subseteq QueuedHandles(queues')]_vars

(* Which slot a content datagram reaches *)
\* C34: a content datagram has an effect on a slot only if the slot is in
\* datagram mode and the datagram carries the bid prefix of its fetch: a
\* datagram with the bid that a fetch left in a free slot, or with the bid of
\* a slot that is still in a stream state, changes no slot and writes nothing,
\* so every slot that took a datagram was in datagram mode when it came.
C34_OnlyDatagramSlotsAbsorb ==
  \A i \in 1 .. Len(events) :
    events[i].type = "datagram" => InDatagramMode(events[i].was)

(* The pace of the requests in datagram mode *)
\* the interval between two requests of the fetch in slot sl
RequestInterval(sl) ==
  IF sl.bidP # 0 THEN MDP_BLOCK_TX_INTERVAL ELSE MDP_MANIFEST_TX_INTERVAL

\* C35: a slot in datagram mode that has not completed or timed out sends a
\* block request every 133 ms for a payload and a manifest request every
\* 100 ms for a manifest by prefix, also after it has taken content
\* datagrams: its next request is always due, at most one interval from now.
C35_RequestsPaced ==
  \A k \in QueueNos :
    fault = "none" /\ InDatagramMode(slots[k]) =>
      /\ slots[k].alarm.scheduled
      /\ slots[k].alarm.alarm <= now + RequestInterval(slots[k])

(* The receive window: datagrams in order and out of order *)
SuggestWindow == SuggestWith(FallAdvertised, { HttpPeer, MdpPeer }, { 0 })
ActivateWindow == ActivateWith({ "ok", "noconnect" })
PollWindow == \E k \in QueueNos : PollReady(k, {}, FallIO, { "ok" })
MdpWindow == \E k \in QueueNos : MdpAlarm(k, { "ok" })
ContentWindow == ReceivedContent(Datagrams, { "ok" })
OutOfOrderWindow == ReceivedContentOutOfOrder(Datagrams)
AdvanceWindow == AdvanceTimeBy(TimeStep)

NextWindow ==
  \/ SuggestWindow
  \/ ActivateWindow
  \/ PollWindow
  \/ MdpWindow
  \/ ContentWindow
  \/ OutOfOrderWindow
  \/ AdvanceWindow

SpecWindow == Init /\ [][NextWindow]_vars

\* the datagrams that a handler wrote to the scratch file of their slot: the
\* slot went on with the fetch, or was closed with the bytes of the datagram
Written(evs) ==
  { i \in 1 .. Len(evs) :
      /\ evs[i].type = "datagram"
      /\ \A j \in i + 1 .. Len(evs) :
            evs[j].type = "close" /\ evs[j].k = evs[i].k =>
              evs[j].was.file_ofs = evs[i].n }
\* slot k runs the same fetch after the step as before it
SameFetch(k) ==
  /\ slots[k].state # FREE /\ slots'[k].state # FREE
  /\ \A i \in 1 .. Len(events') :
       events'[i].k = k => events'[i].type \notin { "close", "offer" }

\* C36: each content datagram that is written in order sets rx_window_start to
\* its offset plus its length, which is the payload_offset the fetch has after
\* the write; while a slot receives datagrams for one fetch, rx_window_start
\* never decreases; and a datagram for another offset than the payload_offset
\* of its slot changes neither of the two.
C36_WindowFollowsWrites ==
  [][HandlerStep =>
       /\ last'.op = "content" /\ fault' = "none" =>
            \A i \in Written(events') :
              LET e == events'[i] IN
              /\ slots'[e.k].mdpRXWindowStart = e.n
              /\ IF SameFetch(e.k)
                   THEN slots'[e.k].file_ofs = e.n
                   ELSE \E j \in i + 1 .. Len(events') :
                          /\ events'[j].type = "close" /\ events'[j].k = e.k
                          /\ events'[j].was.file_ofs = e.n
       /\ \A k \in QueueNos :
            SameFetch(k) /\ InDatagramMode(slots[k]) /\ InDatagramMode(slots'[k]) =>
              slots'[k].mdpRXWindowStart >= slots[k].mdpRXWindowStart
       /\ last'.op = "content" /\ last'.res = "out of order" =>
            /\ slots'[last'.k].mdpRXWindowStart = slots[last'.k].mdpRXWindowStart
            /\ slots'[last'.k].file_ofs = slots[last'.k].file_ofs
            /\ scratch' = scratch]_vars

\* the second datagram of a payload was written and the fetch goes on
C36_Witness ==
  /\ last.op = "content" /\ last.res = "B" /\ fault = "none"
  /\ \E i \in Written(events) : events[i].n = 4 /\ events[i].was.file_ofs = 2
  /\ slots[last.k].state # FREE
  /\ slots[last.k].mdpRXWindowStart = 4
  /\ slots[last.k].file_ofs = 4

(* The response to the request: what the peer may send and what the slot does *)
Http11 == << "H", "T", "T", "P", "/", "1", ".", "1", "SP" >>
Ok200 == << "2", "0", "0", "SP" >>
Statuses == { Ok200, << "4", "0", "4", "SP" >>, << "2", "0", "x", "SP" >> }
OtherHeader == << "X", ":", "SP", "1", "CR", "LF" >>
LengthHeader(value) == ContentLengthName \o << "SP" >> \o value \o << "CR", "LF" >>
LowerLengthHeader(value) ==
  << "c", "o", "n", "t", "e", "n", "t", "-", "l", "e", "n", "g", "t", "h", ":" >>
    \o value \o << "LF" >>
\* the header lines a response may have, each with the length it announces in
\* decimal, -1 if it announces none
Headers ==
  { << << >>, -1 >>,
    << OtherHeader, -1 >>,
    << LengthHeader(<< "4" >>), 4 >>,
    << LengthHeader(<< "0" >>), 0 >>,
    << OtherHeader \o LengthHeader(<< "1", "2" >>), 12 >>,
    << LowerLengthHeader(<< "4" >>), 4 >>,
    << LengthHeader(<< >>), -1 >>,
    << LengthHeader(<< "4", "x" >>), -1 >>,
    << LengthHeader(<< "-", "4" >>), -1 >>,
    << LengthHeader(<< "4" >>) \o LengthHeader(<< "0", "x", "4" >>), -1 >> }
Bodies == { << >>, << "a", "b" >>, << "a", "b", "c", "d" >> }
Responses ==
  { [version |-> v, status |-> st, reason |-> << "O", "K", "CR", "LF" >>,
     header |-> h[1], length |-> h[2], blank |-> bl, body |-> b] :
      v \in { HttpPreamble, Http11 }, st \in Statuses, h \in Headers,
      bl \in { << "CR", "LF" >>, << "LF" >> }, b \in Bodies }

SuggestHeader == SuggestWith(FallAdvertised, { HttpPeer }, { 0 })
ActivateHeader == ActivateWith({ "ok" })
PollHeader ==
  \E k \in QueueNos :
    /\ slots[k].state # RXHTTPHEADERS
    /\ PollReady(k, {}, HappyIO, { "ok" })
ResponseHeader == \E k \in QueueNos : PollResponse(k, Responses, { "ok" })
MdpHeader == \E k \in QueueNos : MdpAlarm(k, { "ok" })
AdvanceHeader == AdvanceTimeBy(TimeStep)

NextHeader ==
  \/ SuggestHeader
  \/ ActivateHeader
  \/ PollHeader
  \/ ResponseHeader
  \/ MdpHeader
  \/ AdvanceHeader

SpecHeader == Init /\ [][NextHeader]_vars

\* the events of a handler that put slot k in state RXFILE
BodyEntries(evs, k) ==
  { i \in 1 .. Len(evs) :
      evs[i].type = "state" /\ evs[i].k = k /\ evs[i].slot.state = RXFILE }
ClosesOf(evs, k) ==
  { i \in 1 .. Len(evs) : evs[i].type = "close" /\ evs[i].k = k }

\* C37: a slot goes from RXHTTPHEADERS to RXFILE only if the completed
\* response has the status line of HTTP/1.0 with code 200 and a Content-Length
\* header with a decimal value; payload_len is then that value and the bytes of
\* the body that came with the headers are written to the scratch file (no
\* more than the length announced); after any other response the slot does
\* not enter RXFILE.
C37_BodyAfterGoodHeaders ==
  [][HandlerStep =>
       \A k \in QueueNos :
         slots[k].state = RXHTTPHEADERS /\ BodyEntries(events', k) # {} =>
           /\ last'.op = "response" /\ last'.k = k
           /\ last'.res.version = HttpPreamble
           /\ last'.res.status = Ok200
           /\ last'.res.length >= 0
           /\ \A i \in BodyEntries(events', k) :
                events'[i].slot.file_len = last'.res.length
           /\ fault' = "none"
           /\ IF ClosesOf(events', k) = {}
                THEN /\ slots'[k].state = RXFILE
                     /\ slots'[k].file_ofs = Len(last'.res.body)
                     /\ scratch'[k].bytes = Len(last'.res.body)
                ELSE \A i \in ClosesOf(events', k) :
                       events'[i].was.file_ofs =
                         Min(Len(last'.res.body), last'.res.length)]_vars

\* a good response announced 12 bytes and brought the first two
C37_Witness ==
  /\ last.op = "response"
  /\ last.res.version = HttpPreamble /\ last.res.length = 12
  /\ Len(last.res.body) = 2
  /\ slots[last.k].state = RXFILE
  /\ slots[last.k].file_len = 12
  /\ slots[last.k].file_ofs = 2

(* The idle alarm of a fetch over a stream, with time in steps of half the  *)
(* idle timeout                                                             *)
StreamStep == 2500
StreamTicks == 4
StreamIO ==
  [writeChunk |-> 40, readChunk |-> 10, lengths |-> { 4 }, reads |-> { 2 },
   faults |-> FALSE, hangups |-> FALSE]

StreamManifests == 2
SuggestStream ==
  /\ nextH < StreamManifests
  /\ SuggestWith(FallAdvertised, { HttpPeer }, { 0 })
ActivateStream == ActivateWith({ "ok" })
PollStream == \E k \in QueueNos : PollReady(k, {}, StreamIO, { "ok" })
TimeoutStream == \E k \in QueueNos : PollTimeout(k, { "ok" })
AdvanceStream == AdvanceTimeWithin(StreamStep, StreamTicks)

NextStream ==
  \/ SuggestStream
  \/ ActivateStream
  \/ PollStream
  \/ TimeoutStream
  \/ AdvanceStream

SpecStream == Init /\ [][NextStream]_vars

\* the slot runs a fetch over its stream
StreamSlot(sl) ==
  /\ sl.state \in { CONNECTING, SENDINGHTTPREQUEST, RXHTTPHEADERS, RXFILE }
  /\ sl.alarm.function = "poll"
\* the step started the fetch that slot k runs after it
ActivatedIn(k) ==
  \E x \in Offers(events', STARTED) : events'[x].k = k /\ StillRuns(events', x)
\* the step sent some of the request of slot k, or received some of its
\* response
Progress(k) ==
  /\ StreamSlot(slots[k]) /\ SameFetch(k)
  /\ \/ slots'[k].state # slots[k].state
     \/ slots'[k].request_ofs # slots[k].request_ofs
     \/ slots'[k].request_len # slots[k].request_len
     \/ slots'[k].file_ofs # slots[k].file_ofs

\* C38: the idle alarm of a fetch over a stream is set 5000 ms ahead when the
\* fetch is activated and again with every write and read that makes
\* progress, and nothing brings it forward, so that the alarm of a slot that
\* is closed by a timeout was due: 5000 ms had passed since the activation
\* and since the last progress.
C38_StreamIdleAlarm ==
  [][HandlerStep =>
       \A k \in QueueNos :
         /\ (ActivatedIn(k) \/ Progress(k)) /\ StreamSlot(slots'[k]) =>
              /\ slots'[k].alarm.scheduled
              /\ slots'[k].alarm.alarm = now + RHIZOME_IDLE_TIMEOUT
         /\ StreamSlot(slots[k]) /\ StreamSlot(slots'[k]) /\ SameFetch(k) =>
              /\ slots'[k].alarm.scheduled
              /\ slots'[k].alarm.alarm >= slots[k].alarm.alarm
         /\ StreamSlot(slots[k]) /\ last'.op = "timeout" /\ last'.k = k =>
              /\ now >= slots[k].alarm.alarm
              /\ \E i \in ClosesOf(events', k) :
                   events'[i].was.manifest = slots[k].manifest]_vars

\* a slot was closed by the timeout of an alarm that progress had set again
C38_Witness ==
  /\ last.op = "timeout"
  /\ \E i \in ClosesOf(events, last.k) :
       /\ StreamSlot(events[i].was)
       /\ events[i].was.state = SENDINGHTTPREQUEST
       /\ events[i].was.alarm.alarm = 2 * StreamStep + RHIZOME_IDLE_TIMEOUT
       /\ now = 4 * StreamStep

(* rhizome_fetch_insert on its own: queues of any filling, any position that *)
(* its assertions allow                                                      *)
\* the orders in which the manifests 1 .. l may stand in a queue
Fillings(size) ==
  { f \in UNION { [1 .. l -> 1 .. l] : l \in 0 .. Min(size, MaxManifests) } :
      \A x, y \in DOMAIN f : f[x] = f[y] => x = y }
\* a payload size that belongs in queue q
SizeFor(q) == IF QThreshold(q) < 0 THEN QThreshold(q - 1) ELSE QThreshold(q) - 1
CandidateOf(q, h) ==
  [manifest |-> Manifest(h, h, 1, SizeFor(q), h, FALSE, TRUE), peer |-> HttpPeer,
   priority |-> NORMAL_PRIORITY]
FilledQueue(q, f) ==
  [j \in 0 .. QSize(q) - 1 |->
     IF j < Len(f) THEN CandidateOf(q, f[j + 1]) ELSE EmptyCandidate]
\* the candidates of queue a stand before its empty places
Compact(a) ==
  \A j \in DOMAIN a \ { 0 } :
    ~IsNull(a[j].manifest) => ~IsNull(a[j - 1].manifest)

InitInsert ==
  /\ \E q \in QueueNos : \E f \in Fillings(QSize(q)) :
       /\ queues = [i \in QueueNos |->
                      IF i = q THEN FilledQueue(q, f)
                      ELSE [j \in 0 .. QSize(i) - 1 |-> EmptyCandidate]]
       /\ nextH = Len(f)
  /\ slots = [i \in QueueNos |-> EmptySlot]
  /\ sched_activate = [scheduled |-> FALSE, alarm |-> 0]
  /\ store = [id \in Ids |-> -1]
  /\ files = {}
  /\ ignored = [b \in { IgnoreBin(id) : id \in 0 .. MaxId } |->
                  [w \in IgnoreWays |-> EmptyIgnored]]
  /\ released = [h \in Handles |-> 0]
  /\ imported = [h \in Handles |-> 0]
  /\ fs = {}
  /\ scratch = [i \in QueueNos |-> [open |-> 0, bytes |-> 0]]
  /\ rx_time = [i \in QueueNos |-> 0]
  /\ events = << >>
  /\ fault = "none"
  /\ now = 0
  /\ last = Last("init", NoManifest, NoPeer, -1, 0, "")

\* rhizome_fetch_insert(q, i), where its assertions hold
InsertAt ==
  /\ \A q \in QueueNos : Compact(queues[q])
  /\ \E q \in QueueNos : \E i \in 0 .. QSize(q) - 1 :
       /\ IF i = 0 THEN TRUE ELSE ~IsNull(queues[q][i - 1].manifest)
       /\ Commit(rhizome_fetch_insert(Cur(Env(0, TRUE, "ok", TRUE, NoManifest)), q, i))
       /\ last' = Last("insert", NoManifest, NoPeer, q, i, "")
  /\ UNCHANGED now
\* the caller puts a manifest in the place that was made (lines 943-947)
FillAt ==
  /\ last.op = "insert"
  /\ nextH < MaxManifests
  /\ queues' = [queues EXCEPT ![last.k][last.ret] = CandidateOf(last.k, nextH + 1)]
  /\ nextH' = nextH + 1
  /\ last' = Last("fill", NoManifest, NoPeer, last.k, last.ret, "")
  /\ UNCHANGED << slots, sched_activate, store, files, ignored, released,
                  imported, fs, scratch, rx_time, events, fault, now >>

NextInsert ==
  \/ InsertAt
  \/ FillAt

SpecInsert == InitInsert /\ [][NextInsert]_vars

\* C39: insert(q, i) moves the candidates at position i and behind it one
\* place to the right, in their order, and leaves position i empty; if the
\* queue was full, the candidate that stood at its tail, and no other, is
\* discarded and its manifest is released once; if it was not full, no
\* candidate is lost and no manifest released.
C39_InsertShifts ==
  [][last'.op = "insert" =>
       LET q == last'.k
           i == last'.ret
           a == queues[q]
           b == queues'[q]
           n == QSize(q)
           full == ~IsNull(a[n - 1].manifest)
       IN
       /\ IsNull(b[i].manifest)
       /\ \A j \in 0 .. i - 1 : b[j] = a[j]
       /\ \A j \in i .. n - 2 : ~IsNull(a[j].manifest) => b[j + 1] = a[j]
       /\ Cands(b) = IF full THEN SubSeq(Cands(a), 1, n - 1) ELSE Cands(a)
       /\ \A p \in QueueNos \ { q } : queues'[p] = queues[p]
       /\ released' = IF full THEN [released EXCEPT ![a[n - 1].manifest.h] = @ + 1]
                      ELSE released]_vars

\* a candidate was put in the middle of a full queue of three
C39_Witness ==
  /\ last.op = "insert" /\ last.k = 2 /\ last.ret = 1
  /\ ~IsNull(queues[2][0].manifest)
  /\ IsNull(queues[2][1].manifest)
  /\ ~IsNull(queues[2][2].manifest)
  /\ \E h \in Handles : released[h] = 1 /\ ~QueuedIn(queues, h)

(* What an activation tick leaves in the queues *)
\* C40: right after an activation tick, for every slot k that is still free,
\* every candidate that remains in the queues 0 .. k is one that the tick
\* offered to slot k with the result OlderBundle.
C40_OnlyOlderBundleRemains ==
  last.op = "activate" /\ fault = "none" =>
    \A k \in QueueNos :
      slots[k].state = FREE =>
        \A q \in 0 .. k : \A j \in 0 .. QSize(q) - 1 :
          ~IsNull(queues[q][j].manifest) =>
            \E x \in Offers(events, OLDERBUNDLE) :
              /\ events[x].k = k
              /\ events[x].h = queues[q][j].manifest.h

\* a tick left a candidate in queue 0 while the slots 1 and 2 are free
C40_Witness ==
  /\ last.op = "activate" /\ fault = "none"
  /\ slots[0].state # FREE /\ slots[1].state = FREE /\ slots[2].state = FREE
  /\ ~IsNull(queues[0][0].manifest)
  /\ \E x \in Offers(events, OLDERBUNDLE) :
       events[x].k = 2 /\ events[x].h = queues[0][0].manifest.h

====
